---- MODULE Spec2Model ----
(***************************************************************************)
(* Access-Aide (plugin.py): the role inference engine, the document        *)
(* rewriter convert_xhtml and the alt-text merge pass update_alt_text.     *)
(*                                                                         *)
(* Strings the code takes apart (attribute values, text, alt text) are     *)
(* tuples of atoms: an atom is one character (" ", "\t", "&", ";", ...) or *)
(* a word, a run of characters with no whitespace and no markup character. *)
(* Tag and attribute names, which the code only compares, are strings.     *)
(***************************************************************************)
EXTENDS Integers, Sequences, FiniteSets, TLC

None == "None"

(* ------------------------------------------------------------------ *)
(* Python values of the role tables                                     *)
(* ------------------------------------------------------------------ *)

\* ("section") is a str, ("aside","footer","header") is a tuple, () is the empty tuple
PyStr(s) == [py |-> "str", str |-> s, items |-> {}]

PyTuple(S) == [py |-> "tuple", str |-> "", items |-> S]

\* the spelling of the tag names, for the substring tests of the code
Letters ==
       ("a" :> <<"a">>)
    @@ ("abbr" :> <<"a", "b", "b", "r">>)
    @@ ("address" :> <<"a", "d", "d", "r", "e", "s", "s">>)
    @@ ("aside" :> <<"a", "s", "i", "d", "e">>)
    @@ ("b" :> <<"b">>)
    @@ ("bdi" :> <<"b", "d", "i">>)
    @@ ("bdo" :> <<"b", "d", "o">>)
    @@ ("blockquote" :> <<"b", "l", "o", "c", "k", "q", "u", "o", "t", "e">>)
    @@ ("body" :> <<"b", "o", "d", "y">>)
    @@ ("br" :> <<"b", "r">>)
    @@ ("canvas" :> <<"c", "a", "n", "v", "a", "s">>)
    @@ ("cite" :> <<"c", "i", "t", "e">>)
    @@ ("code" :> <<"c", "o", "d", "e">>)
    @@ ("del" :> <<"d", "e", "l">>)
    @@ ("dfn" :> <<"d", "f", "n">>)
    @@ ("div" :> <<"d", "i", "v">>)
    @@ ("em" :> <<"e", "m">>)
    @@ ("footer" :> <<"f", "o", "o", "t", "e", "r">>)
    @@ ("h1" :> <<"h", "1">>)
    @@ ("h2" :> <<"h", "2">>)
    @@ ("h3" :> <<"h", "3">>)
    @@ ("h4" :> <<"h", "4">>)
    @@ ("h5" :> <<"h", "5">>)
    @@ ("h6" :> <<"h", "6">>)
    @@ ("head" :> <<"h", "e", "a", "d">>)
    @@ ("header" :> <<"h", "e", "a", "d", "e", "r">>)
    @@ ("hr" :> <<"h", "r">>)
    @@ ("html" :> <<"h", "t", "m", "l">>)
    @@ ("i" :> <<"i">>)
    @@ ("img" :> <<"i", "m", "g">>)
    @@ ("ins" :> <<"i", "n", "s">>)
    @@ ("kbd" :> <<"k", "b", "d">>)
    @@ ("li" :> <<"l", "i">>)
    @@ ("mark" :> <<"m", "a", "r", "k">>)
    @@ ("nav" :> <<"n", "a", "v">>)
    @@ ("ol" :> <<"o", "l">>)
    @@ ("output" :> <<"o", "u", "t", "p", "u", "t">>)
    @@ ("p" :> <<"p">>)
    @@ ("pre" :> <<"p", "r", "e">>)
    @@ ("q" :> <<"q">>)
    @@ ("rp" :> <<"r", "p">>)
    @@ ("rt" :> <<"r", "t">>)
    @@ ("ruby" :> <<"r", "u", "b", "y">>)
    @@ ("s" :> <<"s">>)
    @@ ("samp" :> <<"s", "a", "m", "p">>)
    @@ ("section" :> <<"s", "e", "c", "t", "i", "o", "n">>)
    @@ ("small" :> <<"s", "m", "a", "l", "l">>)
    @@ ("span" :> <<"s", "p", "a", "n">>)
    @@ ("strong" :> <<"s", "t", "r", "o", "n", "g">>)
    @@ ("sub" :> <<"s", "u", "b">>)
    @@ ("sup" :> <<"s", "u", "p">>)
    @@ ("svg" :> <<"s", "v", "g">>)
    @@ ("table" :> <<"t", "a", "b", "l", "e">>)
    @@ ("tbody" :> <<"t", "b", "o", "d", "y">>)
    @@ ("td" :> <<"t", "d">>)
    @@ ("tfoot" :> <<"t", "f", "o", "o", "t">>)
    @@ ("th" :> <<"t", "h">>)
    @@ ("thead" :> <<"t", "h", "e", "a", "d">>)
    @@ ("time" :> <<"t", "i", "m", "e">>)
    @@ ("title" :> <<"t", "i", "t", "l", "e">>)
    @@ ("tr" :> <<"t", "r">>)
    @@ ("u" :> <<"u">>)
    @@ ("ul" :> <<"u", "l">>)
    @@ ("var" :> <<"v", "a", "r">>)
    @@ ("wbr" :> <<"w", "b", "r">>)

\* Python's  sub in s  on two strings, both spelled out
IsSubstring(sub, s) ==
    \E i \in 1..(Len(s) + 1) :
        /\ i + Len(sub) - 1 =< Len(s)
        /\ SubSeq(s, i, i + Len(sub) - 1) = sub

\* Python's  s.endswith(suffix)
EndsWith(s, suffix) ==
    /\ Len(suffix) =< Len(s)
    /\ SubSeq(s, Len(s) - Len(suffix) + 1, Len(s)) = suffix

\* Python's  tname in tagset : substring of a str, member of a tuple
PyIn(tname, tagset) ==
    IF tagset.py = "str"
    THEN IsSubstring(Letters[tname], Letters[tagset.str])
    ELSE tname \in tagset.items

(* ------------------------------------------------------------------ *)
(* plugin.py 57-232: the tables and _role_from_etype                    *)
(* ------------------------------------------------------------------ *)

_epubtype_aria_map ==
       ("abstract" :> "doc-abstract")
    @@ ("acknowledgments" :> "doc-acknowledgments")
    @@ ("afterword" :> "doc-afterword")
    @@ ("appendix" :> "doc-appendix")
    @@ ("biblioentry" :> "doc-biblioentry")
    @@ ("bibliography" :> "doc-bibliography")
    @@ ("biblioref" :> "doc-biblioref")
    @@ ("chapter" :> "doc-chapter")
    @@ ("colophon" :> "doc-colophon")
    @@ ("conclusion" :> "doc-conclusion")
    @@ ("cover-image" :> "doc-cover")
    @@ ("credit" :> "doc-credit")
    @@ ("credits" :> "doc-credits")
    @@ ("dedication" :> "doc-dedication")
    @@ ("endnote" :> "doc-endnote")
    @@ ("endnotes" :> "doc-endnotes")
    @@ ("epigraph" :> "doc-epigraph")
    @@ ("epilogue" :> "doc-epilogue")
    @@ ("errata" :> "doc-errata")
    @@ ("figure" :> "figure")
    @@ ("footnote" :> "doc-footnote")
    @@ ("foreword" :> "doc-foreword")
    @@ ("glossary" :> "doc-glossary")
    @@ ("glossdef" :> "definition")
    @@ ("glossref" :> "doc-glossref")
    @@ ("glossterm" :> "term")
    @@ ("index" :> "doc-index")
    @@ ("introduction" :> "doc-introduction")
    @@ ("landmarks" :> "directory")
    @@ ("list" :> "list")
    @@ ("list-item" :> "listitem")
    @@ ("noteref" :> "doc-noteref")
    @@ ("notice" :> "doc-notice")
    @@ ("page-list" :> "doc-pagelist")
    @@ ("pagebreak" :> "doc-pagebreak")
    @@ ("part" :> "doc-part")
    @@ ("preface" :> "doc-preface")
    @@ ("prologue" :> "doc-prologue")
    @@ ("pullquote" :> "doc-pullquote")
    @@ ("qna" :> "doc-qna")
    @@ ("referrer" :> "doc-backlink")
    @@ ("subtitle" :> "doc-subtitle")
    @@ ("table" :> "table")
    @@ ("table-row" :> "row")
    @@ ("table-cell" :> "cell")
    @@ ("tip" :> "doc-tip")
    @@ ("toc" :> "doc-toc")

_aria_role_allowed_tags ==
       ("doc-abstract" :> PyStr("section"))
    @@ ("doc-acknowledgments" :> PyStr("section"))
    @@ ("doc-afterword" :> PyStr("section"))
    @@ ("doc-appendix" :> PyStr("section"))
    @@ ("doc-biblioentry" :> PyStr("li"))
    @@ ("doc-bibliography" :> PyStr("section"))
    @@ ("doc-biblioref" :> PyStr("a"))
    @@ ("doc-chapter" :> PyStr("section"))
    @@ ("doc-colophon" :> PyStr("section"))
    @@ ("doc-conclusion" :> PyStr("section"))
    @@ ("doc-cover" :> PyStr("img"))
    @@ ("doc-credit" :> PyStr("section"))
    @@ ("doc-credits" :> PyStr("section"))
    @@ ("doc-dedication" :> PyStr("section"))
    @@ ("doc-endnote" :> PyStr("li"))
    @@ ("doc-endnotes" :> PyStr("section"))
    @@ ("doc-epigraph" :> PyTuple({}))
    @@ ("doc-epilogue" :> PyStr("section"))
    @@ ("doc-errata" :> PyStr("section"))
    @@ ("figure" :> PyTuple({}))
    @@ ("doc-footnote" :> PyTuple({"aside", "footer", "header"}))
    @@ ("doc-foreword" :> PyStr("section"))
    @@ ("doc-glossary" :> PyStr("section"))
    @@ ("definition" :> PyTuple({}))
    @@ ("doc-glossref" :> PyStr("a"))
    @@ ("term" :> PyTuple({}))
    @@ ("doc-index" :> PyTuple({"nav", "section"}))
    @@ ("doc-introduction" :> PyStr("section"))
    @@ ("directory" :> PyTuple({"ol", "ul"}))
    @@ ("list" :> PyTuple({}))
    @@ ("listitem" :> PyTuple({}))
    @@ ("doc-noteref" :> PyStr("a"))
    @@ ("doc-notice" :> PyStr("section"))
    @@ ("doc-pagelist" :> PyTuple({"nav", "section"}))
    @@ ("doc-pagebreak" :> PyStr("hr"))
    @@ ("doc-part" :> PyStr("section"))
    @@ ("doc-preface" :> PyStr("section"))
    @@ ("doc-prologue" :> PyStr("section"))
    @@ ("doc-pullquote" :> PyTuple({"aside", "section"}))
    @@ ("doc-qna" :> PyStr("section"))
    @@ ("doc-backlink" :> PyStr("a"))
    @@ ("doc-subtitle" :> PyTuple({"h1", "h2", "h3", "h4", "h5", "h6"}))
    @@ ("table" :> PyTuple({}))
    @@ ("cell" :> PyTuple({}))
    @@ ("row" :> PyTuple({}))
    @@ ("doc-tip" :> PyStr("aside"))
    @@ ("doc-toc" :> PyTuple({"nav", "section"}))

_all_role_tags ==
       ("a" :> <<FALSE, FALSE>>)
    @@ ("abbr" :> <<TRUE, FALSE>>)
    @@ ("address" :> <<TRUE, FALSE>>)
    @@ ("b" :> <<TRUE, FALSE>>)
    @@ ("bdi" :> <<TRUE, FALSE>>)
    @@ ("bdo" :> <<TRUE, FALSE>>)
    @@ ("blockquote" :> <<TRUE, FALSE>>)
    @@ ("br" :> <<TRUE, FALSE>>)
    @@ ("canvas" :> <<TRUE, FALSE>>)
    @@ ("cite" :> <<TRUE, FALSE>>)
    @@ ("code" :> <<TRUE, FALSE>>)
    @@ ("del" :> <<TRUE, FALSE>>)
    @@ ("dfn" :> <<TRUE, FALSE>>)
    @@ ("div" :> <<TRUE, FALSE>>)
    @@ ("em" :> <<TRUE, FALSE>>)
    @@ ("i" :> <<TRUE, FALSE>>)
    @@ ("img" :> <<FALSE, TRUE>>)
    @@ ("ins" :> <<TRUE, FALSE>>)
    @@ ("kbd" :> <<TRUE, FALSE>>)
    @@ ("mark" :> <<TRUE, FALSE>>)
    @@ ("output" :> <<TRUE, FALSE>>)
    @@ ("p" :> <<TRUE, FALSE>>)
    @@ ("pre" :> <<TRUE, FALSE>>)
    @@ ("q" :> <<TRUE, FALSE>>)
    @@ ("rp" :> <<TRUE, FALSE>>)
    @@ ("rt" :> <<TRUE, FALSE>>)
    @@ ("ruby" :> <<TRUE, FALSE>>)
    @@ ("s" :> <<TRUE, FALSE>>)
    @@ ("samp" :> <<TRUE, FALSE>>)
    @@ ("small" :> <<TRUE, FALSE>>)
    @@ ("span" :> <<TRUE, FALSE>>)
    @@ ("strong" :> <<TRUE, FALSE>>)
    @@ ("sub" :> <<TRUE, FALSE>>)
    @@ ("sup" :> <<TRUE, FALSE>>)
    @@ ("table" :> <<TRUE, FALSE>>)
    @@ ("tbody" :> <<TRUE, FALSE>>)
    @@ ("td" :> <<TRUE, FALSE>>)
    @@ ("tfoot" :> <<TRUE, FALSE>>)
    @@ ("thead" :> <<TRUE, FALSE>>)
    @@ ("th" :> <<TRUE, FALSE>>)
    @@ ("tr" :> <<TRUE, FALSE>>)
    @@ ("time" :> <<TRUE, FALSE>>)
    @@ ("u" :> <<TRUE, FALSE>>)
    @@ ("var" :> <<TRUE, FALSE>>)
    @@ ("wbr" :> <<TRUE, FALSE>>)

\* _role_from_etype without the specific additions of lines 227-231
RoleGeneralOnly(etype, tname, has_href, has_alt) ==
    IF etype \notin DOMAIN _epubtype_aria_map THEN None
    ELSE IF /\ tname \in DOMAIN _all_role_tags
            /\ ~(~_all_role_tags[tname][1] /\ has_href)
            /\ ~(_all_role_tags[tname][2] /\ ~has_alt)
         THEN _epubtype_aria_map[etype]
         ELSE None

\* _role_from_etype without the general allowance of lines 218-226
RoleSpecificOnly(etype, tname, has_href, has_alt) ==
    IF etype \notin DOMAIN _epubtype_aria_map THEN None
    ELSE LET role == _epubtype_aria_map[etype]
         IN  IF role \in DOMAIN _aria_role_allowed_tags
                /\ PyIn(tname, _aria_role_allowed_tags[role])
             THEN role
             ELSE None

\* _role_from_etype with the href condition of line 221 dropped
RoleIgnoringHref(etype, tname, has_href, has_alt) ==
    IF etype \notin DOMAIN _epubtype_aria_map THEN None
    ELSE LET role == _epubtype_aria_map[etype]
         IN  IF /\ tname \in DOMAIN _all_role_tags
                /\ ~(_all_role_tags[tname][2] /\ ~has_alt)
             THEN role
             ELSE IF role \in DOMAIN _aria_role_allowed_tags
                     /\ PyIn(tname, _aria_role_allowed_tags[role])
                  THEN role
                  ELSE None

_role_from_etype(etype, tname, has_href, has_alt) ==
    LET role == IF etype \in DOMAIN _epubtype_aria_map
                THEN _epubtype_aria_map[etype] ELSE None
    IN  IF role = None THEN None
        ELSE LET inAll == tname \in DOMAIN _all_role_tags
                 href_allowed == _all_role_tags[tname][1]
                 need_alt == _all_role_tags[tname][2]
                 allowed == /\ inAll
                            /\ ~(~href_allowed /\ has_href)
                            /\ ~(need_alt /\ ~has_alt)
             IN  IF allowed THEN role
                 ELSE IF /\ role \in DOMAIN _aria_role_allowed_tags
                         /\ PyIn(tname, _aria_role_allowed_tags[role])
                      THEN role
                      ELSE None

(* ------------------------------------------------------------------ *)
(* Strings as tuples of atoms                                           *)
(* ------------------------------------------------------------------ *)

\* the whitespace atoms
WS == {" ", "\t"}

RECURSIVE LStrip(_)
LStrip(v) == IF v # <<>> /\ Head(v) \in WS THEN LStrip(Tail(v)) ELSE v

RECURSIVE RStrip(_)
RStrip(v) ==
    IF v # <<>> /\ v[Len(v)] \in WS THEN RStrip(SubSeq(v, 1, Len(v) - 1)) ELSE v

\* str.strip()
Strip(v) == RStrip(LStrip(v))

\* whitespace_re.split(val), val stripped: the maximal runs of non-whitespace atoms
RECURSIVE SplitWS(_, _)
SplitWS(v, cur) ==
    IF v = <<>> THEN (IF cur = <<>> THEN <<>> ELSE <<cur>>)
    ELSE IF Head(v) \in WS
         THEN (IF cur = <<>> THEN <<>> ELSE <<cur>>) \o SplitWS(Tail(v), <<>>)
         ELSE SplitWS(Tail(v), Append(cur, Head(v)))

\* x in lst, for a Python list
InList(x, lst) == \E i \in 1..Len(lst) : lst[i] = x

\* " ".join(vals)
RECURSIVE Join(_)
Join(vals) ==
    IF vals = <<>> THEN <<>>
    ELSE IF Len(vals) = 1 THEN vals[1]
    ELSE vals[1] \o <<" ">> \o Join(Tail(vals))

\* str.replace(old, new): leftmost, non-overlapping occurrences
RECURSIVE Replace(_, _, _)
Replace(s, old, new) ==
    IF Len(s) < Len(old) THEN s
    ELSE IF SubSeq(s, 1, Len(old)) = old
         THEN new \o Replace(SubSeq(s, Len(old) + 1, Len(s)), old, new)
         ELSE <<Head(s)>> \o Replace(Tail(s), old, new)

\* plugin.py 239-247 (data is never None where the model calls it)
xmlencode(data) ==
    LET d1 == Replace(data, <<"&">>, <<"&", "amp", ";">>)
        d2 == Replace(d1, <<"<">>, <<"&", "lt", ";">>)
        d3 == Replace(d2, <<">">>, <<"&", "gt", ";">>)
    IN  Replace(d3, <<"\"">>, <<"&", "quot", ";">>)

\* plugin.py 250-258 (data is never None where the model calls it)
xmldecode(data) ==
    LET d1 == Replace(data, <<"&", "quot", ";">>, <<"\"">>)
        d2 == Replace(d1, <<"&", "gt", ";">>, <<">">>)
        d3 == Replace(d2, <<"&", "lt", ";">>, <<"<">>)
    IN  Replace(d3, <<"&", "amp", ";">>, <<"&">>)

\* parse_attribute that splits on any whitespace, whether or not a blank is there
ParseAlwaysSplit(avalue) == SplitWS(Strip(avalue), <<>>)

\* plugin.py 263-273 (avalue is never None: every caller passes a default "")
parse_attribute(avalue) ==
    LET val == Strip(avalue)
    IN  IF \E i \in 1..Len(val) : val[i] = " "
        THEN SplitWS(val, <<>>)
        ELSE IF val # <<>> THEN <<val>> ELSE <<>>

(* ------------------------------------------------------------------ *)
(* Attributes: an insertion-ordered dict, a tuple of <<name, value>>    *)
(* ------------------------------------------------------------------ *)

\* name in tattr
HasAttr(tattr, name) == \E i \in 1..Len(tattr) : tattr[i][1] = name

\* tattr.get(name, default)
GetAttr(tattr, name, default) ==
    IF HasAttr(tattr, name)
    THEN tattr[CHOOSE i \in 1..Len(tattr) : tattr[i][1] = name][2]
    ELSE default

\* an assignment that always adds a new entry
SetAttrAppend(tattr, name, value) == Append(tattr, <<name, value>>)

\* tattr[name] = value : in place when the key exists, at the end otherwise
SetAttr(tattr, name, value) ==
    IF HasAttr(tattr, name)
    THEN [i \in 1..Len(tattr) |->
            IF tattr[i][1] = name THEN <<name, value>> ELSE tattr[i]]
    ELSE Append(tattr, <<name, value>>)

(* ------------------------------------------------------------------ *)
(* The tokenizer's events (bk.qp.parse_iter) and the chunks of res      *)
(* ------------------------------------------------------------------ *)

TextEv(t) == [kind |-> "text", text |-> t, tname |-> "", ttype |-> "", tattr |-> <<>>]

TagEv(n, ty, a) == [kind |-> "tag", text |-> <<>>, tname |-> n, ttype |-> ty, tattr |-> a]

\* the tag path after an event: a begin tag opens, an end tag closes
PathAfter(path, ev) ==
    IF ev.kind = "tag" /\ ev.ttype = "begin" THEN Append(path, ev.tname)
    ELSE IF ev.kind = "tag" /\ ev.ttype = "end" /\ path # <<>>
         THEN SubSeq(path, 1, Len(path) - 1)
         ELSE path

\* the tag path after the events lo..hi of data, path the one in front of them:
\* the first half of the events, then the second
RECURSIVE PathOver(_, _, _, _)
PathOver(path, data, lo, hi) ==
    IF lo > hi THEN path
    ELSE IF lo = hi THEN PathAfter(path, data[lo])
    ELSE LET half == (lo + hi) \div 2
             first == PathOver(path, data, lo, half)
         IN  IF first = first THEN PathOver(first, data, half + 1, hi) ELSE path

\* the tag path in front of event i of data: its tprefix, before "." joins it
PathBefore(data, i) == PathOver(<<>>, data, 1, i - 1)

\* qp.parse_iter(): the events of data, each with its tprefix
parse_iter(data) ==
    [i \in 1..Len(data) |-> [ev |-> data[i], tprefix |-> PathBefore(data, i)]]

\* "head" in tprefix : a substring test on the dotted path
HeadInPrefix(tprefix) ==
    \E i \in 1..Len(tprefix) : IsSubstring(Letters["head"], Letters[tprefix[i]])

\* tprefix.endswith("title")
PrefixEndsWithTitle(tprefix) ==
    /\ tprefix # <<>>
    /\ EndsWith(Letters[tprefix[Len(tprefix)]], Letters["title"])

\* "".join(res) as the tokenizer reads it back: the chunks of all iterations in
\* order, adjacent text run together, empty text gone
\* the chunks of the iterations lo..hi: those of the first half, then the others
RECURSIVE FlattenOver(_, _, _)
FlattenOver(res, lo, hi) ==
    IF lo > hi THEN <<>>
    ELSE IF lo = hi THEN res[lo]
    ELSE FlattenOver(res, lo, (lo + hi) \div 2) \o FlattenOver(res, (lo + hi) \div 2 + 1, hi)

Flatten(res) == FlattenOver(res, 1, Len(res))

\* the text of the text events p..q of chunks, run together
RECURSIVE TextRun(_, _, _)
TextRun(chunks, p, q) ==
    IF p > q THEN <<>> ELSE chunks[p].text \o TextRun(chunks, p + 1, q)

Retokenize(chunks) ==
    LET ne == SelectSeq(chunks, LAMBDA c : ~(c.kind = "text" /\ c.text = <<>>))
        \* where a token starts: at a tag, and at a text that follows no text
        starts == { i \in 1..Len(ne) :
                      ne[i].kind = "tag" \/ i = 1 \/ ne[i - 1].kind = "tag" }
        start(k) == CHOOSE i \in starts : Cardinality({j \in starts : j =< i}) = k
        last(k) == IF k = Cardinality(starts) THEN Len(ne) ELSE start(k + 1) - 1
    IN  [k \in 1..Cardinality(starts) |->
            IF ne[start(k)].kind = "tag" THEN ne[start(k)]
            ELSE TextEv(TextRun(ne, start(k), last(k)))]

JoinRes(res) == Retokenize(Flatten(res))

(* ------------------------------------------------------------------ *)
(* plugin.py 606-710: convert_xhtml                                     *)
(* ------------------------------------------------------------------ *)

\* an etype or role value as a key of the tables: a value of several atoms is no key
AsKey(word) == IF Len(word) = 1 THEN word[1] ELSE "?"

\* lines 679-683: the loop over evals, appending each new role to rvals
RECURSIVE AddRoles(_, _, _, _, _)
AddRoles(evals, rvals, tname, has_href, has_alt) ==
    IF evals = <<>> THEN rvals
    ELSE LET ariarole == _role_from_etype(AsKey(Head(evals)), tname, has_href, has_alt)
             nrvals == IF ariarole # None /\ ~InList(<<ariarole>>, rvals)
                       THEN Append(rvals, <<ariarole>>)
                       ELSE rvals
         IN  AddRoles(Tail(evals), nrvals, tname, has_href, has_alt)

\* lines 612-616: the landmark of this document, or the defaults
LandmarkOf(bookpath, etypemap) ==
    IF bookpath \in DOMAIN etypemap THEN etypemap[bookpath] ELSE <<"", <<>>, <<>>>>

\* titlemap.get(bookpath, "")
TitleOf(bookpath, titlemap) ==
    IF bookpath \in DOMAIN titlemap THEN titlemap[bookpath] ELSE <<>>

\* lines 636-644: the landmark's epub:type on the tag whose id is the fragment
InjectLandmark(tname, ttype, tattr, lm, E3) ==
    IF /\ E3
       /\ lm[1] = "id"
       /\ ttype \in {"single", "begin"}
       /\ HasAttr(tattr, "id")
       /\ GetAttr(tattr, "id", <<>>) = lm[2]
    THEN LET vals == parse_attribute(GetAttr(tattr, "epub:type", <<>>))
         IN  IF ~InList(lm[3], vals)
             THEN SetAttr(tattr, "epub:type", Join(Append(vals, lm[3])))
             ELSE tattr
    ELSE tattr

\* lang and xml:lang set on every begin tag
InjectLangAnyTag(tname, ttype, tattr, plang) ==
    IF ttype = "begin"
    THEN SetAttr(SetAttr(tattr, "lang", plang), "xml:lang", plang)
    ELSE tattr

\* lines 657-659: lang and xml:lang on the html begin tag
InjectLang(tname, ttype, tattr, plang) ==
    IF tname = "html" /\ ttype = "begin"
    THEN SetAttr(SetAttr(tattr, "lang", plang), "xml:lang", plang)
    ELSE tattr

\* line 663
IsImg(tname, ttype) == tname = "img" /\ ttype \in {"single", "begin"}

\* lines 673-687: the roles of the tag's epub:type values
InjectRoles(tname, ttype, tattr, E3) ==
    IF E3 /\ ttype \in {"begin", "single"} /\ HasAttr(tattr, "epub:type")
    THEN LET evals == parse_attribute(GetAttr(tattr, "epub:type", <<>>))
             rvals == parse_attribute(GetAttr(tattr, "role", <<>>))
             has_href == HasAttr(tattr, "href")
             has_alt == HasAttr(tattr, "alt")
             nrvals == AddRoles(evals, rvals, tname, has_href, has_alt)
         IN  IF Len(nrvals) > 0 THEN SetAttr(tattr, "role", Join(nrvals)) ELSE tattr
    ELSE tattr

\* a text event where any text under the title, blank or not, counts as a title
ConvertTextNoStrip(st, text, tprefix) ==
    [st EXCEPT
        !.maintitle = IF HeadInPrefix(tprefix) /\ PrefixEndsWithTitle(tprefix)
                      THEN <<text>> ELSE @,
        !.res = Append(@, <<TextEv(text)>>)]

\* lines 628-633: a text event
ConvertText(st, text, tprefix) ==
    [st EXCEPT
        !.maintitle = IF /\ HeadInPrefix(tprefix)
                         /\ PrefixEndsWithTitle(tprefix)
                         /\ Strip(text) # <<>>
                      THEN <<text>> ELSE @,
        !.res = Append(@, <<TextEv(text)>>)]

\* an image step that counts and records only the images that have an alt attribute
ImageStepAltOnly(img, imgcnt, imglst, tattr, mid, bookpath) ==
    IF img /\ HasAttr(tattr, "alt")
    THEN [imgcnt |-> imgcnt + 1,
          tattr |-> tattr,
          imglst |-> Append(imglst, <<mid, bookpath, imgcnt + 1, GetAttr(tattr, "src", <<>>),
                                      GetAttr(tattr, "alt", <<>>)>>)]
    ELSE [imgcnt |-> imgcnt, tattr |-> tattr, imglst |-> imglst]

\* lines 663-668: the image counter, the forced alt attribute and the image record
ImageStep(img, imgcnt, imglst, tattr, mid, bookpath) ==
    IF img
    THEN LET alttext == GetAttr(tattr, "alt", <<>>)
             nattr == SetAttr(tattr, "alt", alttext)
             imgsrc == GetAttr(nattr, "src", <<>>)
         IN  [imgcnt |-> imgcnt + 1,
              tattr |-> nattr,
              imglst |-> Append(imglst, <<mid, bookpath, imgcnt + 1, imgsrc, alttext>>)]
    ELSE [imgcnt |-> imgcnt, tattr |-> tattr, imglst |-> imglst]

\* lines 690-708: what the tag event appends to res
EmitTag(maintitle, tname, ttype, tattr, tprefix, bookpath, titlemap) ==
    LET \* lines 690-692
        onEnd == IF /\ tname = "title" /\ ttype = "end" /\ HeadInPrefix(tprefix)
                    /\ maintitle = <<>>
                 THEN <<TextEv(TitleOf(bookpath, titlemap))>>
                 ELSE <<>>
        \* lines 695-700 and 708
        single == tname = "title" /\ ttype = "single" /\ HeadInPrefix(tprefix)
        out == IF single
               THEN <<TagEv(tname, "begin", tattr), TextEv(TitleOf(bookpath, titlemap)),
                      TagEv(tname, "end", <<>>)>>
               ELSE <<TagEv(tname, ttype, tattr)>>
    IN  onEnd \o out

\* a tag event with the roles inferred before the landmark's epub:type is added
ConvertTagRolesFirst(st, tname, ttype, tattr, tprefix, mid, bookpath, plang, titlemap, etypemap, E3) ==
    LET a0 == InjectRoles(tname, ttype, tattr, E3)
        a1 == InjectLandmark(tname, ttype, a0, LandmarkOf(bookpath, etypemap), E3)
        a2 == InjectLang(tname, ttype, a1, plang)
        im == ImageStep(IsImg(tname, ttype), st.imgcnt, st.imglst, a2, mid, bookpath)
    IN  [st EXCEPT !.imgcnt = im.imgcnt, !.imglst = im.imglst,
                   !.res = Append(@, EmitTag(st.maintitle, tname, ttype, im.tattr, tprefix,
                                             bookpath, titlemap))]

\* lines 635-708: a tag event (launcher 20210203 or later: no xmlheader workaround;
\* the attribute names of lines 621-627 are already trimmed)
ConvertTag(st, tname, ttype, tattr, tprefix, mid, bookpath, plang, titlemap, etypemap, E3) ==
    LET a1 == InjectLandmark(tname, ttype, tattr, LandmarkOf(bookpath, etypemap), E3)
        a2 == InjectLang(tname, ttype, a1, plang)
        im == ImageStep(IsImg(tname, ttype), st.imgcnt, st.imglst, a2, mid, bookpath)
        a4 == InjectRoles(tname, ttype, im.tattr, E3)
    IN  [st EXCEPT !.imgcnt = im.imgcnt, !.imglst = im.imglst,
                   !.res = Append(@, EmitTag(st.maintitle, tname, ttype, a4, tprefix,
                                             bookpath, titlemap))]

\* lines 619-708: the loop over the events; st.maintitle is <<>> for None, <<text>> otherwise
RECURSIVE ConvertLoop(_, _, _, _, _, _, _, _, _)
ConvertLoop(st, events, i, mid, bookpath, plang, titlemap, etypemap, E3) ==
    IF i > Len(events) THEN st
    ELSE LET e == events[i]
             nst == IF e.ev.kind = "text"
                    THEN ConvertText(st, e.ev.text, e.tprefix)
                    ELSE ConvertTag(st, e.ev.tname, e.ev.ttype, e.ev.tattr, e.tprefix,
                                    mid, bookpath, plang, titlemap, etypemap, E3)
         IN  \* the state after event i is computed before event i + 1 is read
             IF nst = nst
             THEN ConvertLoop(nst, events, i + 1, mid, bookpath, plang, titlemap, etypemap, E3)
             ELSE st

\* convert_xhtml: res holds what each iteration appended, imglst the image records
convert_xhtml(data, mid, bookpath, plang, titlemap, etypemap, E3) ==
    ConvertLoop([maintitle |-> <<>>, imgcnt |-> 0, imglst |-> <<>>, res |-> <<>>],
                parse_iter(data), 1, mid, bookpath, plang, titlemap, etypemap, E3)

(* ------------------------------------------------------------------ *)
(* plugin.py 715-732: update_alt_text                                   *)
(* ------------------------------------------------------------------ *)

\* lines 721-731: res and imgptr after the events from i on
RECURSIVE UpdateLoop(_, _, _, _, _, _)
UpdateLoop(res, imgptr, data, i, imgcnt, alttext) ==
    IF i > Len(data) THEN res
    ELSE LET ev == data[i]
             img == ev.kind = "tag" /\ IsImg(ev.tname, ev.ttype)
             nptr == IF img THEN imgptr + 1 ELSE imgptr
             tattr == IF img /\ nptr = imgcnt
                      THEN SetAttr(ev.tattr, "alt", xmlencode(alttext))
                      ELSE ev.tattr
             nres == IF ev.kind = "text" THEN Append(res, <<ev>>)
                     ELSE Append(res, <<TagEv(ev.tname, ev.ttype, tattr)>>)
         IN  \* res after event i is computed before event i + 1 is read
             IF nres = nres /\ nptr = nptr
             THEN UpdateLoop(nres, nptr, data, i + 1, imgcnt, alttext)
             ELSE res

\* update_alt_text that drops an image whose alt text is empty
UpdateAltDropsEmpty(xhtmldata, imgcnt, imgsrc, alttext) ==
    SelectSeq(JoinRes(UpdateLoop(<<>>, 0, xhtmldata, 1, imgcnt, alttext)),
              LAMBDA ev : ~(/\ ev.kind = "tag" /\ ev.tname = "img"
                            /\ HasAttr(ev.tattr, "alt")
                            /\ GetAttr(ev.tattr, "alt", <<"-">>) = <<>>))

\* update_alt_text whose image counter starts at 1
UpdateAltFromOne(xhtmldata, imgcnt, imgsrc, alttext) ==
    JoinRes(UpdateLoop(<<>>, 1, xhtmldata, 1, imgcnt, alttext))

update_alt_text(xhtmldata, imgcnt, imgsrc, alttext) ==
    JoinRes(UpdateLoop(<<>>, 0, xhtmldata, 1, imgcnt, alttext))

(* ------------------------------------------------------------------ *)
(* State                                                                *)
(* ------------------------------------------------------------------ *)

VARIABLES
    pc,         \* where the run is: "call"/"return" (role inference), "start", "converted", "merged"
    args,       \* the arguments of the _role_from_etype call
    ret,        \* what _role_from_etype returned
    E3,         \* the epub is version 3: landmarks and roles are added
    plang,      \* the primary language
    titlemap,   \* bookpath -> title
    etypemap,   \* bookpath -> <<"id", fragment, etype>>
    files,      \* the content document as stored (bk.readfile / bk.writefile), tokenized
    before,     \* the content document before the last pass over it
    res,        \* what each iteration of the last convert_xhtml appended to res
    imglst,     \* the image records of the last convert_xhtml
    imgbefore,  \* the image records of the convert_xhtml before that
    passes,     \* the convert_xhtml passes over the document so far
    merges,     \* the update_alt_text passes over the document so far
    upd,        \* the arguments of the last update_alt_text
    bk,         \* the book the host hands to run, parse_nav and parse_ncx
    loc         \* the local variables of the function that is running

vars == <<pc, args, ret, E3, plang, titlemap, etypemap, files, before, res,
          imglst, imgbefore, passes, merges, upd, bk, loc>>

(* ------------------------------------------------------------------ *)
(* Bounds and input sets                                                *)
(* ------------------------------------------------------------------ *)

\* a document departs from the plain skeleton in at most this many places
MaxElems == 2

\* convert_xhtml passes over one document
MaxPasses == 2

\* update_alt_text passes over one document
MaxMerges == 1

\* body elements of a document the merge passes run over
MaxMergeElems == 2

mid == "doc2"

bookpath == "OEBPS/Text/doc2.xhtml"

otherpath == "OEBPS/Text/doc1.xhtml"

en == <<"en">>

\* semantic types asked of the role inference: every key of the map and one other
ETypes == DOMAIN _epubtype_aria_map \cup {"bodymatter"}

\* host tags asked of the role inference: every tag the tables name and the skeleton's
HostTags == DOMAIN Letters

Htmls ==
    { << <<"lang", en>>, <<"xml:lang", en>> >>,
      <<>>,
      << <<"lang", <<"fr">>>> >> }

PlainHtml == << <<"lang", en>>, <<"xml:lang", en>> >>

OldTitle == <<"Old", " ", "Title">>

PlainTitle == <<TagEv("title", "begin", <<>>), TextEv(OldTitle), TagEv("title", "end", <<>>)>>

Titles ==
    { PlainTitle,
      <<TagEv("title", "begin", <<>>), TagEv("title", "end", <<>>)>>,
      <<TagEv("title", "begin", <<>>), TextEv(<<" ", "\t">>), TagEv("title", "end", <<>>)>>,
      <<TagEv("title", "single", <<>>)>> }

Elem(tname, tattr, inner) ==
    <<TagEv(tname, "begin", tattr)>> \o inner \o <<TagEv(tname, "end", <<>>)>>

\* the elements a body is made of
Fragments ==
    { Elem("section", << <<"epub:type", <<"chapter">>>> >>, <<>>),
      Elem("section", << <<"id", <<"s1">>>> >>, <<>>),
      Elem("section", << <<"id", <<"s1">>>>, <<"epub:type", <<"part">>>> >>, <<>>),
      Elem("section", << <<"epub:type", <<"chapter", "\t", "part">>>>, <<"id", <<"s1">>>>,
                         <<"role", <<"doc-part">>>> >>, <<>>),
      Elem("section", << <<"id", <<"s2">>>>, <<"role", <<"doc-chapter">>>>,
                         <<"epub:type", <<"chapter", " ", "chapter">>>> >>, <<>>),
      Elem("span", << <<"epub:type", <<"footnote">>>> >>, <<TextEv(<<"note">>)>>),
      Elem("a", << <<"href", <<"n1">>>>, <<"epub:type", <<"tip">>>> >>, <<>>),
      Elem("div", << <<"epub:type", <<"bodymatter">>>>, <<"role", <<"x", " ", " ", "y">>>> >>, <<>>),
      Elem("p", << <<"lang", <<"fr">>>> >>, <<TextEv(<<"Bonjour">>)>>),
      Elem("header", <<>>, Elem("svg", <<>>, <<TagEv("title", "single", <<>>)>>)),
      Elem("section", << <<"role", <<"doc-part", "\t", "doc-chapter">>>>,
                         <<"epub:type", <<"chapter">>>> >>, <<>>),
      <<TagEv("img", "single", << <<"src", <<"a.png">>>> >>)>>,
      <<TagEv("img", "single", << <<"alt", <<"x", "&", "amp", ";", "y">>>>, <<"src", <<"b.png">>>>,
                                  <<"id", <<"s1">>>> >>)>>,
      Elem("img", << <<"src", <<"c.png">>>>, <<"alt", <<>>>>, <<"epub:type", <<"cover-image">>>> >>, <<>>) }

Doc(h, t, body) ==
    <<TagEv("html", "begin", h), TagEv("head", "begin", <<>>)>> \o t
    \o <<TagEv("head", "end", <<>>), TagEv("body", "begin", <<>>)>> \o body
    \o <<TagEv("body", "end", <<>>), TagEv("html", "end", <<>>)>>

\* the input documents: the skeleton with at most MaxElems departures from the plain one
Docs ==
    { Doc(c[1], c[2], Flatten(c[3])) :
        c \in { d \in Htmls \X Titles \X UNION {[1..n -> Fragments] : n \in 0..MaxElems} :
                  (IF d[1] = PlainHtml THEN 0 ELSE 1) + (IF d[2] = PlainTitle THEN 0 ELSE 1)
                      + Len(d[3]) =< MaxElems } }

\* the elements of the documents the merge passes run over
MergeFragments ==
    { <<TagEv("img", "single", << <<"src", <<"a.png">>>> >>)>>,
      <<TagEv("img", "single", << <<"alt", <<"x", "&", "amp", ";", "y">>>>, <<"src", <<"b.png">>>>,
                                  <<"id", <<"s1">>>> >>)>>,
      Elem("img", << <<"src", <<"c.png">>>>, <<"alt", <<>>>> >>, <<>>),
      <<TagEv("area", "single", << <<"alt", <<"map">>>> >>)>>,
      Elem("p", <<>>, <<TextEv(<<"Bonjour">>)>>) }

MergeDocs ==
    { Doc(PlainHtml, PlainTitle, Flatten(b)) :
        b \in UNION {[1..n -> MergeFragments] : n \in 0..MaxMergeElems} }

NewTitle == <<"Chapter", " ", "Two">>

TitleMaps ==
    { (otherpath :> <<"Intro">>),
      (otherpath :> <<"Intro">>) @@ (bookpath :> NewTitle) }

\* parse_nav keeps fragment landmarks only; an epub2 has none (plugin.py 381-392)
EtypeMaps(e3) ==
    IF e3
    THEN { (otherpath :> <<"id", <<"s1">>, <<"toc">>>>),
           (otherpath :> <<"id", <<"s1">>, <<"toc">>>>) @@ (bookpath :> <<"id", <<"s1">>, <<"chapter">>>>) }
    ELSE { <<>> }

\* the texts the review hands to update_alt_text
NewAlts == { <<>>, <<"a", " ", "tree">>, <<"R", "&", "D">> }

\* the number of img begin or single tags of a document
RECURSIVE ImgCount(_)
ImgCount(data) ==
    IF data = <<>> THEN 0
    ELSE (IF data[1].kind = "tag" /\ IsImg(data[1].tname, data[1].ttype) THEN 1 ELSE 0)
         + ImgCount(Tail(data))

NoCall == [etype |-> "", tname |-> "", has_href |-> FALSE, has_alt |-> FALSE]

NoUpd == [imgcnt |-> 0, alttext |-> <<>>]

NoBook == <<>>

NoLocals == <<>>

(* ------------------------------------------------------------------ *)
(* plugin.py 503-596: parse_nav and parse_ncx                           *)
(* ------------------------------------------------------------------ *)

navbookpath == "OEBPS/Text/nav.xhtml"

\* a dict with key k set to v
Put(map, k, v) == [x \in (DOMAIN map) \cup {k} |-> IF x = k THEN v ELSE map[x]]

\* the place of the first "#" of an href, 0 when it has none
HashPos(href) ==
    IF \E i \in 1..Len(href) : href[i] = "#"
    THEN CHOOSE i \in 1..Len(href) : href[i] = "#" /\ \A j \in 1..(i - 1) : href[j] # "#"
    ELSE 0

\* unquote(urlparse(href).path): the href up to its first "#"
UrlPath(href) ==
    IF HashPos(href) = 0 THEN href ELSE SubSeq(href, 1, HashPos(href) - 1)

\* urlparse(href).fragment: what follows the first "#", "" when there is none
UrlFragment(href) ==
    IF HashPos(href) = 0 THEN <<>> ELSE SubSeq(href, HashPos(href) + 1, Len(href))

\* bk.build_bookpath(apath, base) for the files of the book, all in OEBPS/Text:
\* from the nav in OEBPS/Text, from the ncx in OEBPS (launcher 20190927 or later)
build_bookpath(apath) ==
    IF apath \in {<<"doc1.xhtml">>, <<"Text/doc1.xhtml">>} THEN otherpath
    ELSE IF apath \in {<<"doc2.xhtml">>, <<"Text/doc2.xhtml">>} THEN bookpath
    ELSE IF apath = <<"nav.xhtml">> THEN navbookpath
    ELSE "OEBPS/Text/"

\* tagprefix.endswith(name): the last tag of the path ends with name
PrefixEndsWith(tprefix, name) ==
    /\ tprefix # <<>>
    /\ LET last == tprefix[Len(tprefix)]
       IN  IF last \in DOMAIN Letters /\ name \in DOMAIN Letters
           THEN EndsWith(Letters[last], Letters[name])
           ELSE last = name

\* lines 508-517: the locals of parse_nav before the loop; None is <<>>, a value
\* v is <<v>>
NavStart ==
    [titlemap |-> <<>>, etypemap |-> <<>>, in_toc |-> FALSE, in_lms |-> FALSE,
     getlabel |-> FALSE, navtitle |-> <<>>, tochref |-> <<>>, prevbookpath |-> ""]

\* the mutant of NavTag that keeps the landmarks of whole documents (lines 542-545)
NavTagWholeDocuments(st, tagname, tagtype, tagattr) ==
    LET s1 == IF tagname = "nav" /\ tagtype = "begin" /\ HasAttr(tagattr, "epub:type")
              THEN [st EXCEPT !.in_toc = (GetAttr(tagattr, "epub:type", <<>>) = <<"toc">>),
                              !.in_lms = (GetAttr(tagattr, "epub:type", <<>>) = <<"landmarks">>)]
              ELSE st
        s2 == IF s1.in_toc /\ tagname = "a" /\ tagtype = "begin" /\ HasAttr(tagattr, "href")
              THEN [s1 EXCEPT !.tochref = <<GetAttr(tagattr, "href", <<>>)>>, !.getlabel = TRUE]
              ELSE s1
    IN  IF /\ s2.in_lms /\ tagname = "a" /\ tagtype = "begin"
           /\ HasAttr(tagattr, "href") /\ HasAttr(tagattr, "epub:type")
        THEN LET lmhref == GetAttr(tagattr, "href", <<>>)
                 etype == GetAttr(tagattr, "epub:type", <<>>)
                 path == build_bookpath(UrlPath(lmhref))
                 fragment == UrlFragment(lmhref)
             IN  IF fragment # <<>>
                 THEN [s2 EXCEPT !.etypemap = Put(s2.etypemap, path, <<"id", fragment, etype>>)]
                 ELSE [s2 EXCEPT !.etypemap = Put(s2.etypemap, path, <<"body", <<>>, etype>>)]
        ELSE s2

\* the mutant of NavTag that keeps the first landmark of a document (line 541)
NavTagFirstLandmark(st, tagname, tagtype, tagattr) ==
    LET s1 == IF tagname = "nav" /\ tagtype = "begin" /\ HasAttr(tagattr, "epub:type")
              THEN [st EXCEPT !.in_toc = (GetAttr(tagattr, "epub:type", <<>>) = <<"toc">>),
                              !.in_lms = (GetAttr(tagattr, "epub:type", <<>>) = <<"landmarks">>)]
              ELSE st
        s2 == IF s1.in_toc /\ tagname = "a" /\ tagtype = "begin" /\ HasAttr(tagattr, "href")
              THEN [s1 EXCEPT !.tochref = <<GetAttr(tagattr, "href", <<>>)>>, !.getlabel = TRUE]
              ELSE s1
    IN  IF /\ s2.in_lms /\ tagname = "a" /\ tagtype = "begin"
           /\ HasAttr(tagattr, "href") /\ HasAttr(tagattr, "epub:type")
        THEN LET lmhref == GetAttr(tagattr, "href", <<>>)
                 etype == GetAttr(tagattr, "epub:type", <<>>)
                 path == build_bookpath(UrlPath(lmhref))
                 fragment == UrlFragment(lmhref)
             IN  IF fragment # <<>> /\ path \notin DOMAIN s2.etypemap
                 THEN [s2 EXCEPT !.etypemap = Put(s2.etypemap, path, <<"id", fragment, etype>>)]
                 ELSE s2
        ELSE s2

\* lines 520-545: a tag event
NavTag(st, tagname, tagtype, tagattr) ==
    LET s1 == IF tagname = "nav" /\ tagtype = "begin" /\ HasAttr(tagattr, "epub:type")
              THEN [st EXCEPT !.in_toc = (GetAttr(tagattr, "epub:type", <<>>) = <<"toc">>),
                              !.in_lms = (GetAttr(tagattr, "epub:type", <<>>) = <<"landmarks">>)]
              ELSE st
        s2 == IF s1.in_toc /\ tagname = "a" /\ tagtype = "begin" /\ HasAttr(tagattr, "href")
              THEN [s1 EXCEPT !.tochref = <<GetAttr(tagattr, "href", <<>>)>>, !.getlabel = TRUE]
              ELSE s1
    IN  IF /\ s2.in_lms /\ tagname = "a" /\ tagtype = "begin"
           /\ HasAttr(tagattr, "href") /\ HasAttr(tagattr, "epub:type")
        THEN LET lmhref == GetAttr(tagattr, "href", <<>>)
                 etype == GetAttr(tagattr, "epub:type", <<>>)
                 path == build_bookpath(UrlPath(lmhref))
                 fragment == UrlFragment(lmhref)
             IN  IF fragment # <<>>
                 THEN [s2 EXCEPT !.etypemap = Put(s2.etypemap, path, <<"id", fragment, etype>>)]
                 ELSE s2
        ELSE s2

\* lines 547-562: a text event
NavText(st, text, tagprefix) ==
    LET s1 == IF st.navtitle = <<>> /\ PrefixEndsWith(tagprefix, "h1")
              THEN [st EXCEPT !.navtitle = <<text>>,
                              !.titlemap = Put(st.titlemap, navbookpath, text)]
              ELSE st
    IN  IF s1.in_toc /\ s1.getlabel
        THEN LET s2 == IF s1.tochref # <<>>
                       THEN LET path == build_bookpath(UrlPath(s1.tochref[1]))
                            IN  [s1 EXCEPT !.titlemap = IF path # s1.prevbookpath
                                                        THEN Put(s1.titlemap, path, text)
                                                        ELSE s1.titlemap,
                                           !.prevbookpath = path]
                       ELSE s1
             IN  [s2 EXCEPT !.tochref = <<>>, !.getlabel = FALSE]
        ELSE s1

\* lines 518-562: one iteration of the loop, over event i of the nav
NavEvent(st, data, i) ==
    IF data[i].kind = "text"
    THEN NavText(st, data[i].text, PathBefore(data, i))
    ELSE NavTag(st, data[i].tname, data[i].ttype, data[i].tattr)

\* the loop over the events lo..hi, in order: the first half, then the second
RECURSIVE NavLoop(_, _, _, _)
NavLoop(st, data, lo, hi) ==
    IF lo > hi THEN st
    ELSE IF lo = hi THEN NavEvent(st, data, lo)
    ELSE LET half == (lo + hi) \div 2
             first == NavLoop(st, data, lo, half)
         IN  \* the state after the first half is computed before the second is read
             IF first = first THEN NavLoop(first, data, half + 1, hi) ELSE st

\* lines 503-564: the titlemap and the etypemap of the nav
parse_nav(data) ==
    LET st == NavLoop(NavStart, data, 1, Len(data))
    IN  <<st.titlemap, st.etypemap>>

\* Python's None where a text is expected
PyNone == <<None>>

\* lines 574-578: the locals of parse_ncx before the loop; navlabel is not bound
\* (line 575 assigns navlable)
NcxStart ==
    [titlemap |-> <<>>, bound |-> FALSE, navlabel |-> PyNone, prevbookpath |-> "",
     raised |-> FALSE]

\* tp.endswith('.navpoint.navlabel.text')
InNavLabelText(tp) ==
    /\ Len(tp) >= 4
    /\ SubSeq(tp, Len(tp) - 2, Len(tp)) = <<"navpoint", "navlabel", "text">>

\* lines 580-582: a text event
NcxText(st, txt, tp) ==
    IF InNavLabelText(tp) THEN [st EXCEPT !.navlabel = Strip(txt), !.bound = TRUE] ELSE st

\* lines 584-595: a tag event; reading navlabel before any assignment raises
\* UnboundLocalError
NcxTag(st, tname, tattr, tp) ==
    IF tname = "content" /\ HasAttr(tattr, "src") /\ PrefixEndsWith(tp, "navpoint")
    THEN LET path == build_bookpath(UrlPath(GetAttr(tattr, "src", <<>>)))
         IN  IF path # st.prevbookpath /\ ~st.bound
             THEN [st EXCEPT !.raised = TRUE]
             ELSE [st EXCEPT !.titlemap = IF path # st.prevbookpath
                                          THEN Put(st.titlemap, path, st.navlabel)
                                          ELSE st.titlemap,
                             !.prevbookpath = path,
                             !.navlabel = PyNone,
                             !.bound = TRUE]
    ELSE st

\* lines 579-595: one iteration of the loop, over event i of the ncx
NcxEvent(st, data, i) ==
    IF data[i].kind = "text"
    THEN NcxText(st, data[i].text, PathBefore(data, i))
    ELSE NcxTag(st, data[i].tname, data[i].tattr, PathBefore(data, i))

\* the loop over the events lo..hi, in order, left when the exception is raised
RECURSIVE NcxLoop(_, _, _, _)
NcxLoop(st, data, lo, hi) ==
    IF lo > hi \/ st.raised THEN st
    ELSE IF lo = hi THEN NcxEvent(st, data, lo)
    ELSE LET half == (lo + hi) \div 2
         IN  NcxLoop(NcxLoop(st, data, lo, half), data, half + 1, hi)

\* lines 568-596: the titlemap of the ncx, or the exception
parse_ncx(data) ==
    LET st == NcxLoop(NcxStart, data, 1, Len(data))
    IN  IF st.raised THEN [raised |-> TRUE, titlemap |-> <<>>]
        ELSE [raised |-> FALSE, titlemap |-> st.titlemap]

(* ------------------------------------------------------------------ *)
(* plugin.py 302-344: the metadata loop of run                          *)
(* ------------------------------------------------------------------ *)

\* value.startswith("schema:access"): the value's first atom is the prefix
StartsWithAccess(value) == value # <<>> /\ value[1] = "schema:access"

NL == <<"\n">>

\* <meta property="schema:..."> text </meta> \n
MetaProperty(prop, text) ==
    Elem("meta", << <<"property", <<"schema:access", prop>>>> >>, <<TextEv(text)>>)
    \o <<TextEv(NL)>>

\* <meta name="schema:..." content="..."/> \n
MetaName(name, content) ==
    <<TagEv("meta", "single", << <<"name", <<"schema:access", name>>>>, <<"content", content>> >>),
      TextEv(NL)>>

\* lines 329-341: the accessibility block, as the tokenizer reads it back
AccessBlock(e3) ==
    IF e3
    THEN MetaProperty("ibilitySummary", <<"This publication conforms to WCAG 2.0 AA.">>)
         \o MetaProperty("Mode", <<"textual">>)
         \o MetaProperty("Mode", <<"visual">>)
         \o MetaProperty("ModeSufficient", <<"textual">>)
         \o MetaProperty("ibilityFeature", <<"structuralNavigation">>)
         \o MetaProperty("ibilityHazard", <<"none">>)
    ELSE MetaName("ibilitySummary", <<"This publication conforms to WCAG 2.0 AA.">>)
         \o MetaName("Mode", <<"textual">>)
         \o MetaName("ModeSufficient", <<"textual">>)
         \o MetaName("ibilityFeature", <<"structuralNavigation">>)
         \o MetaName("ibilityHazard", <<"none">>)

\* lines 302-304: the locals before the loop
MetaStart == [plang |-> PyNone, has_access_meta |-> FALSE, res |-> <<>>]

\* the mutant of MetaText: every language declaration replaces the primary language
MetaTextLastWins(st, text, tagprefix) ==
    [st EXCEPT !.res = Append(st.res, <<TextEv(text)>>),
               !.plang = IF PrefixEndsWith(tagprefix, "dc:language") THEN text ELSE st.plang]

\* lines 309-313: a text event
MetaText(st, text, tagprefix) ==
    [st EXCEPT !.res = Append(st.res, <<TextEv(text)>>),
               !.plang = IF PrefixEndsWith(tagprefix, "dc:language") /\ st.plang = PyNone
                         THEN text ELSE st.plang]

\* lines 317-342: a tag event
MetaTag(st, tagname, tagtype, tagattr, e3) ==
    LET found == /\ tagname = "meta" /\ tagtype = "begin"
                 /\ \/ /\ HasAttr(tagattr, "property")
                       /\ StartsWithAccess(GetAttr(tagattr, "property", <<>>))
                    \/ /\ HasAttr(tagattr, "name")
                       /\ StartsWithAccess(GetAttr(tagattr, "name", <<>>))
        has == st.has_access_meta \/ found
        block == IF tagname = "metadata" /\ tagtype = "end" /\ ~has
                 THEN AccessBlock(e3) ELSE <<>>
    IN  [st EXCEPT !.has_access_meta = has,
                   !.res = Append(st.res, block \o <<TagEv(tagname, tagtype, tagattr)>>)]

\* lines 306-342: one iteration of the loop
MetaEvent(st, data, i, e3) ==
    IF data[i].kind = "text"
    THEN MetaText(st, data[i].text, PathBefore(data, i))
    ELSE MetaTag(st, data[i].tname, data[i].ttype, data[i].tattr, e3)

\* the loop over the events lo..hi, in order: the first half, then the second
RECURSIVE MetaLoop(_, _, _, _, _)
MetaLoop(st, data, lo, hi, e3) ==
    IF lo > hi THEN st
    ELSE IF lo = hi THEN MetaEvent(st, data, lo, e3)
    ELSE LET half == (lo + hi) \div 2
             first == MetaLoop(st, data, lo, half, e3)
         IN  \* the state after the first half is computed before the second is read
             IF first = first THEN MetaLoop(first, data, half + 1, hi, e3) ELSE st

(* ------------------------------------------------------------------ *)
(* The document passes: convert_xhtml, then update_alt_text             *)
(* ------------------------------------------------------------------ *)

Init ==
    /\ pc = "start"
    /\ args = NoCall
    /\ ret = None
    /\ E3 \in BOOLEAN
    /\ plang = en
    /\ titlemap \in TitleMaps
    /\ etypemap \in EtypeMaps(E3)
    /\ files \in Docs
    /\ before = files
    /\ res = <<>>
    /\ imglst = <<>>
    /\ imgbefore = <<>>
    /\ passes = 0
    /\ merges = 0
    /\ upd = NoUpd
    /\ bk = NoBook
    /\ loc = NoLocals

\* plugin.py 407-408: one convert_xhtml pass over the stored document, written back
Convert ==
    /\ pc \in {"start", "converted"}
    /\ passes < MaxPasses
    /\ LET st == convert_xhtml(files, mid, bookpath, plang, titlemap, etypemap, E3)
       IN  /\ res' = st.res
           /\ files' = JoinRes(st.res)
           /\ imglst' = st.imglst
    /\ before' = files
    /\ imgbefore' = imglst
    /\ passes' = passes + 1
    /\ pc' = "converted"
    /\ UNCHANGED <<args, ret, E3, plang, titlemap, etypemap, merges, upd, bk, loc>>

\* plugin.py 484-486: one update_alt_text pass over the stored document, written back
UpdateAlt ==
    /\ pc \in {"converted", "merged"}
    /\ merges < MaxMerges
    /\ \E imgcnt \in 0..(ImgCount(files) + 1), alttext \in NewAlts :
          /\ files' = update_alt_text(files, imgcnt, <<>>, alttext)
          /\ upd' = [imgcnt |-> imgcnt, alttext |-> alttext]
    /\ before' = files
    /\ merges' = merges + 1
    /\ pc' = "merged"
    /\ UNCHANGED <<args, ret, E3, plang, titlemap, etypemap, res, imglst, imgbefore, passes, bk, loc>>

Next == Convert

Spec == Init /\ [][Next]_vars

(* ------------------------------------------------------------------ *)
(* The merge passes after the first convert_xhtml (plugin.py 477-487)   *)
(* ------------------------------------------------------------------ *)

InitMerge ==
    /\ pc = "start"
    /\ args = NoCall
    /\ ret = None
    /\ E3 \in BOOLEAN
    /\ plang = en
    /\ titlemap \in TitleMaps
    /\ etypemap \in EtypeMaps(E3)
    /\ files \in MergeDocs
    /\ before = files
    /\ res = <<>>
    /\ imglst = <<>>
    /\ imgbefore = <<>>
    /\ passes = 0
    /\ merges = 0
    /\ upd = NoUpd
    /\ bk = NoBook
    /\ loc = NoLocals

NextMerge == (pc = "start" /\ Convert) \/ UpdateAlt

SpecMerge == InitMerge /\ [][NextMerge]_vars

(* ------------------------------------------------------------------ *)
(* The role inference alone                                             *)
(* ------------------------------------------------------------------ *)

InitRole ==
    /\ pc = "call"
    /\ args \in [etype : ETypes, tname : HostTags, has_href : BOOLEAN, has_alt : BOOLEAN]
    /\ ret = None
    /\ E3 = TRUE
    /\ plang = en
    /\ titlemap = <<>>
    /\ etypemap = <<>>
    /\ files = <<>>
    /\ before = <<>>
    /\ res = <<>>
    /\ imglst = <<>>
    /\ imgbefore = <<>>
    /\ passes = 0
    /\ merges = 0
    /\ upd = NoUpd
    /\ bk = NoBook
    /\ loc = NoLocals

\* plugin.py 680: the call
RoleFromEtype ==
    /\ pc = "call"
    /\ ret' = _role_from_etype(args.etype, args.tname, args.has_href, args.has_alt)
    /\ pc' = "return"
    /\ UNCHANGED <<args, E3, plang, titlemap, etypemap, files, before, res,
                   imglst, imgbefore, passes, merges, upd, bk, loc>>

NextRole == RoleFromEtype

SpecRole == InitRole /\ [][NextRole]_vars

(* ------------------------------------------------------------------ *)
(* parse_nav, one event at a time (plugin.py 518-564)                   *)
(* ------------------------------------------------------------------ *)

\* entries of the toc and of the landmarks of a nav, together
MaxNavItems == 3

\* the label of the k-th toc anchor
Labels == <<"One", "Two", "Three", "Four", "Five">>

TocHrefs ==
    { << <<"href", <<"doc1.xhtml">>>> >>,
      << <<"href", <<"doc2.xhtml">>>> >>,
      << <<"href", <<"doc1.xhtml", "#", "s1">>>> >>,
      <<>> }

\* the k-th anchor of the toc
TocItem(tattr, k) == Elem("a", tattr, <<TextEv(<<Labels[k]>>)>>)

RECURSIVE TocItems(_, _)
TocItems(hrefs, k) ==
    IF k > Len(hrefs) THEN <<>> ELSE TocItem(hrefs[k], k) \o TocItems(hrefs, k + 1)

LmItems ==
    { Elem("a", << <<"epub:type", <<"chapter">>>>, <<"href", <<"doc1.xhtml", "#", "s1">>>> >>,
           <<TextEv(<<"Start">>)>>),
      Elem("a", << <<"epub:type", <<"part">>>>, <<"href", <<"doc1.xhtml", "#", "s2">>>> >>,
           <<TextEv(<<"Part">>)>>),
      Elem("a", << <<"epub:type", <<"bodymatter">>>>, <<"href", <<"doc2.xhtml">>>> >>,
           <<TextEv(<<"Text">>)>>),
      Elem("a", << <<"epub:type", <<"toc">>>>, <<"href", <<"nav.xhtml", "#">>>> >>,
           <<TextEv(<<"Contents">>)>>),
      Elem("a", << <<"href", <<"doc2.xhtml", "#", "s1">>>> >>, <<TextEv(<<"Notes">>)>>) }

NavDoc(hrefs, lms) ==
    <<TagEv("html", "begin", <<>>), TagEv("body", "begin", <<>>)>>
    \o Elem("nav", << <<"epub:type", <<"toc">>>> >>,
            Elem("h1", <<>>, <<TextEv(<<"Contents">>)>>)
            \o Elem("ol", <<>>, TocItems(hrefs, 1)))
    \o Elem("nav", << <<"epub:type", <<"landmarks">>>> >>, Elem("ol", <<>>, Flatten(lms)))
    \o <<TagEv("body", "end", <<>>), TagEv("html", "end", <<>>)>>

NavDocsOf(max) ==
    { NavDoc(c[1], c[2]) :
        c \in { d \in (UNION {[1..n -> TocHrefs] : n \in 0..max})
                       \X (UNION {[1..n -> LmItems] : n \in 0..max}) :
                  Len(d[1]) + Len(d[2]) =< max } }

NavDocs == NavDocsOf(MaxNavItems)

\* the locals of parse_nav other than the two maps, and the loop's position
NavLocals(st, i) ==
    [i |-> i, in_toc |-> st.in_toc, in_lms |-> st.in_lms, getlabel |-> st.getlabel,
     navtitle |-> st.navtitle, tochref |-> st.tochref, prevbookpath |-> st.prevbookpath]

NavState ==
    [titlemap |-> titlemap, etypemap |-> etypemap, in_toc |-> loc.in_toc,
     in_lms |-> loc.in_lms, getlabel |-> loc.getlabel, navtitle |-> loc.navtitle,
     tochref |-> loc.tochref, prevbookpath |-> loc.prevbookpath]

InitNav ==
    /\ pc = "parse_nav"
    /\ args = NoCall
    /\ ret = None
    /\ E3 = TRUE
    /\ plang = en
    /\ titlemap = NavStart.titlemap
    /\ etypemap = NavStart.etypemap
    /\ files = <<>>
    /\ before = <<>>
    /\ res = <<>>
    /\ imglst = <<>>
    /\ imgbefore = <<>>
    /\ passes = 0
    /\ merges = 0
    /\ upd = NoUpd
    /\ bk \in [nav : NavDocs]
    /\ loc = NavLocals(NavStart, 1)

\* plugin.py 518-562: the next event of the nav
ParseNavEvent ==
    /\ pc = "parse_nav"
    /\ loc.i =< Len(bk.nav)
    /\ LET st == NavEvent(NavState, bk.nav, loc.i)
       IN  /\ titlemap' = st.titlemap
           /\ etypemap' = st.etypemap
           /\ loc' = NavLocals(st, loc.i + 1)
    /\ UNCHANGED <<pc, args, ret, E3, plang, files, before, res, imglst, imgbefore,
                   passes, merges, upd, bk>>

\* plugin.py 564: the loop is over, the maps are returned
ParseNavReturn ==
    /\ pc = "parse_nav"
    /\ loc.i > Len(bk.nav)
    /\ pc' = "nav_parsed"
    /\ UNCHANGED <<args, ret, E3, plang, titlemap, etypemap, files, before, res, imglst,
                   imgbefore, passes, merges, upd, bk, loc>>

NextNav == ParseNavEvent \/ ParseNavReturn

SpecNav == InitNav /\ [][NextNav]_vars

(* ------------------------------------------------------------------ *)
(* parse_ncx, one event at a time (plugin.py 579-596)                   *)
(* ------------------------------------------------------------------ *)

\* navPoints of an ncx
MaxNcxPoints == 3

NcxSrcs ==
    { <<"Text/doc1.xhtml">>, <<"Text/doc2.xhtml">>, <<"Text/doc1.xhtml", "#", "s1">> }

\* the k-th navPoint: its label, if it has one, and its content
NavPoint(p, k) ==
    Elem("navpoint", <<>>,
         (IF p[1] THEN Elem("navlabel", <<>>, Elem("text", <<>>, <<TextEv(<<" ", Labels[k]>>)>>))
                  ELSE <<>>)
         \o <<TagEv("content", "single", << <<"src", p[2]>> >>)>>)

RECURSIVE NavPoints(_, _)
NavPoints(ps, k) ==
    IF k > Len(ps) THEN <<>> ELSE NavPoint(ps[k], k) \o NavPoints(ps, k + 1)

NcxDoc(ps) ==
    <<TagEv("ncx", "begin", <<>>)>>
    \o Elem("doctitle", <<>>, Elem("text", <<>>, <<TextEv(<<"Book">>)>>))
    \o Elem("navmap", <<>>, NavPoints(ps, 1))
    \o <<TagEv("ncx", "end", <<>>)>>

NcxDocs == { NcxDoc(ps) : ps \in UNION {[1..n -> BOOLEAN \X NcxSrcs] : n \in 0..MaxNcxPoints} }

\* the locals of parse_ncx other than the map, and the loop's position
NcxLocals(st, i) ==
    [i |-> i, bound |-> st.bound, navlabel |-> st.navlabel,
     prevbookpath |-> st.prevbookpath, raised |-> st.raised]

NcxState ==
    [titlemap |-> titlemap, bound |-> loc.bound, navlabel |-> loc.navlabel,
     prevbookpath |-> loc.prevbookpath, raised |-> loc.raised]

InitNcx ==
    /\ pc = "parse_ncx"
    /\ args = NoCall
    /\ ret = None
    /\ E3 = FALSE
    /\ plang = en
    /\ titlemap = NcxStart.titlemap
    /\ etypemap = <<>>
    /\ files = <<>>
    /\ before = <<>>
    /\ res = <<>>
    /\ imglst = <<>>
    /\ imgbefore = <<>>
    /\ passes = 0
    /\ merges = 0
    /\ upd = NoUpd
    /\ bk \in [ncx : NcxDocs]
    /\ loc = NcxLocals(NcxStart, 1)

\* plugin.py 579-595: the next event of the ncx
ParseNcxEvent ==
    /\ pc = "parse_ncx"
    /\ loc.i =< Len(bk.ncx)
    /\ ~loc.raised
    /\ LET st == NcxEvent(NcxState, bk.ncx, loc.i)
       IN  /\ titlemap' = st.titlemap
           /\ loc' = NcxLocals(st, loc.i + 1)
    /\ UNCHANGED <<pc, args, ret, E3, plang, etypemap, files, before, res, imglst,
                   imgbefore, passes, merges, upd, bk>>

\* plugin.py 593: navlabel is read before it was ever assigned
ParseNcxRaise ==
    /\ pc = "parse_ncx"
    /\ loc.raised
    /\ pc' = "ncx_raised"
    /\ ret' = "UnboundLocalError"
    /\ UNCHANGED <<args, E3, plang, titlemap, etypemap, files, before, res, imglst,
                   imgbefore, passes, merges, upd, bk, loc>>

\* plugin.py 596: the loop is over, the map is returned
ParseNcxReturn ==
    /\ pc = "parse_ncx"
    /\ loc.i > Len(bk.ncx)
    /\ ~loc.raised
    /\ pc' = "ncx_parsed"
    /\ UNCHANGED <<args, ret, E3, plang, titlemap, etypemap, files, before, res, imglst,
                   imgbefore, passes, merges, upd, bk, loc>>

NextNcx == ParseNcxEvent \/ ParseNcxRaise \/ ParseNcxReturn

SpecNcx == InitNcx /\ [][NextNcx]_vars

(* ------------------------------------------------------------------ *)
(* run (plugin.py 276-495), step by step                                *)
(* ------------------------------------------------------------------ *)

\* in how many places a book differs from the plain book
MaxDepartures == 2

Success == "0"

Failure == "-1"

\* bk.media_iter(): the mime types, split after the major type
Medias ==
    [image |-> << <<"image", "/png">> >>,
     audio |-> << <<"image", "/png">>, <<"audio", "/mpeg">> >>,
     video |-> << <<"video", "/mp4">>, <<"image", "/png">> >>]

\* the language declarations of the metadata
LangDecls ==
    [one |-> Elem("dc:language", <<>>, <<TextEv(en)>>),
     none |-> <<>>,
     two |-> Elem("dc:language", <<>>, <<TextEv(<<"fr">>)>>)
             \o Elem("dc:language", <<>>, <<TextEv(en)>>),
     empty |-> Elem("dc:language", <<>>, <<>>)
               \o Elem("dc:language", <<>>, <<TextEv(en)>>)]

\* the meta declarations of the metadata
MetaDecls ==
    [none |-> <<>>,
     property |-> MetaProperty("Mode", <<"textual">>),
     name |-> MetaName("Mode", <<"textual">>),
     other |-> Elem("meta", << <<"property", <<"dcterms:modified">>>> >>, <<TextEv(<<"2020">>)>>)]

\* bk.getmetadataxml()
MetaDoc(langs, metas) ==
    <<TagEv("metadata", "begin", <<>>)>>
    \o Elem("dc:title", <<>>, <<TextEv(<<"Book">>)>>)
    \o langs \o metas
    \o <<TagEv("metadata", "end", <<>>)>>

\* bk.manifest_epub3_iter(): mid and properties of each entry
Manifests ==
    [nav |-> << <<"nav", <<"nav">>>>, <<"doc1", PyNone>>, <<"doc2", PyNone>> >>,
     mathml |-> << <<"nav", <<"nav">>>>, <<"doc1", <<"mathml">>>>, <<"doc2", PyNone>> >>,
     scripted |-> << <<"nav", <<"nav">>>>, <<"doc1", PyNone>>, <<"doc2", <<"scripted", " ", "svg">>>> >>,
     nonav |-> << <<"nav", PyNone>>, <<"doc1", PyNone>>, <<"doc2", PyNone>> >>]

\* the first content document, with and without images
RunDoc1(images) ==
    Doc(PlainHtml, PlainTitle,
        IF images
        THEN <<TagEv("img", "single", << <<"alt", <<"x", "&", "amp", ";", "y">>>>,
                                         <<"src", <<"b.png">>>> >>),
               TagEv("img", "single", << <<"src", <<"a.png">>>> >>)>>
        ELSE Elem("p", <<>>, <<TextEv(<<"Bonjour">>)>>))

\* the second content document, with and without an image, with the ids s0 and s1
RunDoc2(images) ==
    Doc(<<>>, <<TagEv("title", "begin", <<>>), TagEv("title", "end", <<>>)>>,
        Elem("p", << <<"id", <<"s0">>>> >>, <<>>)
        \o Elem("section", << <<"id", <<"s1">>>> >>,
             IF images
             THEN <<TagEv("img", "single", << <<"alt", <<"&", "#169", ";", " ", "&", "amp", ";", "co">>>>,
                                              <<"src", <<"c.png">>>> >>)>>
             ELSE <<>>))

\* the nav: doc1 and doc2 in the toc; two landmarks in doc2, the fragment s0 a
\* part and, after it, the fragment s1 a chapter
RunNav ==
    NavDoc(<< << <<"href", <<"doc1.xhtml">>>> >>, << <<"href", <<"doc2.xhtml">>>> >> >>,
           << Elem("a", << <<"epub:type", <<"part">>>>, <<"href", <<"doc2.xhtml", "#", "s0">>>> >>,
                   <<TextEv(<<"Part">>)>>),
              Elem("a", << <<"epub:type", <<"chapter">>>>, <<"href", <<"doc2.xhtml", "#", "s1">>>> >>,
                   <<TextEv(<<"Start">>)>>) >>)

RunNcx == NcxDoc(<< <<TRUE, <<"Text/doc1.xhtml">>>>, <<TRUE, <<"Text/doc2.xhtml">>>> >>)

\* the choices that make a book, and how many of them are not the plain one
Choices ==
    [media : DOMAIN Medias, langs : DOMAIN LangDecls, metas : DOMAIN MetaDecls,
     manifest : DOMAIN Manifests, images : BOOLEAN]

Departures(c) ==
    (IF c.media = "image" THEN 0 ELSE 1) + (IF c.langs = "one" THEN 0 ELSE 1)
    + (IF c.metas = "none" THEN 0 ELSE 1) + (IF c.manifest = "nav" THEN 0 ELSE 1)
    + (IF c.images THEN 0 ELSE 1)

\* the book the host hands to run
Book(c) ==
    [media |-> Medias[c.media],
     metaxml |-> MetaDoc(LangDecls[c.langs], MetaDecls[c.metas]),
     manifest |-> Manifests[c.manifest],
     nav |-> RunNav,
     ncx |-> RunNcx,
     texts |-> << <<"doc1", otherpath>>, <<"doc2", bookpath>> >>,
     files |-> ("doc1" :> RunDoc1(c.images)) @@ ("doc2" :> RunDoc2(c.images)),
     metawrites |-> 0,
     writes |-> <<>>]

Books == { Book(c) : c \in { d \in Choices : Departures(d) =< MaxDepartures } }

\* the locals of run that the steps after the checks use
RunLocals ==
    [docptr |-> 1, temp_dir |-> "none", altlist |-> <<>>, naltlist |-> <<>>,
     cancelled |-> FALSE, ptr |-> 0, built |-> 0, seen |-> <<>>, merged |-> <<>>,
     start |-> NoBook, converted |-> <<>>]

InitRun ==
    /\ pc = "run"
    /\ args = NoCall
    /\ ret = None
    /\ E3 \in BOOLEAN
    /\ plang = PyNone
    /\ titlemap = <<>>
    /\ etypemap = <<>>
    /\ files = <<>>
    /\ before = <<>>
    /\ res = <<>>
    /\ imglst = <<>>
    /\ imgbefore = <<>>
    /\ passes = 0
    /\ merges = 0
    /\ upd = NoUpd
    /\ bk \in Books
    /\ loc = [RunLocals EXCEPT !.start = bk]

\* the variables of the passes over one document, which run leaves alone
DocVars == <<args, files, before, res, imgbefore, passes, merges, upd>>

\* mime.startswith('audio') or mime.startswith('video'), for some resource
HasAudioVideo(media) ==
    \E k \in 1..Len(media) : media[k][1] \in {"audio", "video"}

\* plugin.py 289-296: the audio/video check
CheckMedia ==
    /\ pc = "run"
    /\ IF HasAudioVideo(bk.media)
       THEN pc' = "returned" /\ ret' = Failure
       ELSE pc' = "metadata" /\ ret' = ret
    /\ UNCHANGED <<E3, plang, titlemap, etypemap, imglst, bk, loc>>
    /\ UNCHANGED DocVars

\* plugin.py 302-344: the metadata loop, and bk.setmetadataxml
Metadata ==
    /\ pc = "metadata"
    /\ LET st == MetaLoop(MetaStart, bk.metaxml, 1, Len(bk.metaxml), E3)
       IN  /\ plang' = st.plang
           /\ bk' = [bk EXCEPT !.metaxml = JoinRes(st.res), !.metawrites = @ + 1]
    /\ pc' = "checklang"
    /\ UNCHANGED <<ret, E3, titlemap, etypemap, imglst, loc>>
    /\ UNCHANGED DocVars

\* plugin.py 346-348: no primary language
CheckLang ==
    /\ pc = "checklang"
    /\ IF plang = PyNone
       THEN pc' = "returned" /\ ret' = Failure
       ELSE pc' = "manifest" /\ ret' = ret
    /\ UNCHANGED <<E3, plang, titlemap, etypemap, imglst, bk, loc>>
    /\ UNCHANGED DocVars

\* word in mprops, mprops a str or None
InProps(word, mprops) ==
    mprops # PyNone /\ \E k \in 1..Len(mprops) : mprops[k] = word

\* the mutant of CheckManifest that lets a book with MathML through
CheckManifestMathml ==
    /\ pc = "manifest"
    /\ LET m == bk.manifest
           uses_script == \E k \in 1..Len(m) : InProps("scripted", m[k][2])
           has_nav == \E k \in 1..Len(m) : InProps("nav", m[k][2])
       IN  IF E3 /\ (~has_nav \/ uses_script)
           THEN pc' = "returned" /\ ret' = Failure
           ELSE pc' = "maps" /\ ret' = ret
    /\ UNCHANGED <<E3, plang, titlemap, etypemap, imglst, bk, loc>>
    /\ UNCHANGED DocVars

\* plugin.py 353-379: the manifest checks of an epub3
CheckManifest ==
    /\ pc = "manifest"
    /\ LET m == bk.manifest
           uses_mathml == \E k \in 1..Len(m) : InProps("mathml", m[k][2])
           uses_script == \E k \in 1..Len(m) : InProps("scripted", m[k][2])
           has_nav == \E k \in 1..Len(m) : InProps("nav", m[k][2])
       IN  IF E3 /\ (~has_nav \/ uses_mathml \/ uses_script)
           THEN pc' = "returned" /\ ret' = Failure
           ELSE pc' = "maps" /\ ret' = ret
    /\ UNCHANGED <<E3, plang, titlemap, etypemap, imglst, bk, loc>>
    /\ UNCHANGED DocVars

\* plugin.py 381-392: the two maps, from the nav or from the ncx
BuildMaps ==
    /\ pc = "maps"
    /\ IF E3
       THEN /\ titlemap' = parse_nav(bk.nav)[1]
            /\ etypemap' = parse_nav(bk.nav)[2]
            /\ pc' = "convert" /\ ret' = ret
       ELSE /\ titlemap' = parse_ncx(bk.ncx).titlemap
            /\ etypemap' = <<>>
            /\ IF parse_ncx(bk.ncx).raised
               THEN pc' = "raised" /\ ret' = "UnboundLocalError"
               ELSE pc' = "convert" /\ ret' = ret
    /\ loc' = [loc EXCEPT !.built = @ + 1]
    /\ UNCHANGED <<E3, plang, imglst, bk>>
    /\ UNCHANGED DocVars

\* the mutant of ConvertDoc that feeds the document's path back into the TitleMap
ConvertDocFeedback ==
    /\ pc = "convert"
    /\ loc.docptr =< Len(bk.texts)
    /\ LET m == bk.texts[loc.docptr][1]
           path == bk.texts[loc.docptr][2]
           st == convert_xhtml(bk.files[m], m, path, plang, titlemap, etypemap, E3)
       IN  /\ bk' = [bk EXCEPT !.files[m] = JoinRes(st.res), !.writes = Append(@, m)]
           /\ imglst' = imglst \o st.imglst
           /\ titlemap' = Put(titlemap, path, TitleOf(path, titlemap) \o <<"*">>)
           /\ loc' = [loc EXCEPT !.docptr = @ + 1,
                                 !.seen = Append(@, <<titlemap, etypemap>>)]
    /\ UNCHANGED <<pc, ret, E3, plang, etypemap>>
    /\ UNCHANGED DocVars

\* plugin.py 401-410: the next content document through convert_xhtml, written back
ConvertDoc ==
    /\ pc = "convert"
    /\ loc.docptr =< Len(bk.texts)
    /\ LET m == bk.texts[loc.docptr][1]
           path == bk.texts[loc.docptr][2]
           st == convert_xhtml(bk.files[m], m, path, plang, titlemap, etypemap, E3)
       IN  /\ bk' = [bk EXCEPT !.files[m] = JoinRes(st.res), !.writes = Append(@, m)]
           /\ imglst' = imglst \o st.imglst
           /\ loc' = [loc EXCEPT !.docptr = @ + 1,
                                 !.seen = Append(@, <<titlemap, etypemap>>)]
    /\ UNCHANGED <<pc, ret, E3, plang, titlemap, etypemap>>
    /\ UNCHANGED DocVars

\* imgpath: the copy of the image in temp_dir
ImgPath(imgsrc) == <<"tmp/">> \o UrlPath(imgsrc)

\* plugin.py 450-465: the list for the review, alt text decoded
AltList(lst) == [k \in 1..Len(lst) |-> <<ImgPath(lst[k][4]), xmldecode(lst[k][5])>>]

\* plugin.py 417-465: the images copied to temp_dir, the list for the review built
Export ==
    /\ pc = "convert"
    /\ loc.docptr > Len(bk.texts)
    /\ loc' = [loc EXCEPT !.temp_dir = "exists", !.altlist = AltList(imglst),
                          !.converted = bk.files]
    /\ pc' = "review"
    /\ UNCHANGED <<ret, E3, plang, titlemap, etypemap, imglst, bk>>
    /\ UNCHANGED DocVars

\* plugin.py 417-431: temp_dir is made, then writing an image copy fails (OSError
\* from os.makedirs or open); nothing catches it, line 474 is not reached
ExportRaise ==
    /\ pc = "convert"
    /\ loc.docptr > Len(bk.texts)
    /\ loc' = [loc EXCEPT !.temp_dir = "exists", !.converted = bk.files]
    /\ pc' = "raised"
    /\ ret' = "OSError"
    /\ UNCHANGED <<E3, plang, titlemap, etypemap, imglst, bk>>
    /\ UNCHANGED DocVars

\* plugin.py 469-474: no image, no review; temp_dir removed
ReviewSkipped ==
    /\ pc = "review"
    /\ Len(loc.altlist) = 0
    /\ loc' = [loc EXCEPT !.naltlist = <<>>, !.temp_dir = "removed"]
    /\ pc' = "merge"
    /\ UNCHANGED <<ret, E3, plang, titlemap, etypemap, imglst, bk>>
    /\ UNCHANGED DocVars

\* what the review may return for one image: the text shown, or another
ReviewTexts(shown) == {shown} \cup NewAlts \cup {<<"x", "&", "amp", ";", "y">>}

\* the review returns a list, one-to-one with altlist and in its order
\* (plugin.py 471, 474)
Review ==
    /\ pc = "review"
    /\ Len(loc.altlist) > 0
    /\ \E nl \in [1..Len(loc.altlist) -> ReviewTexts(<<>>) \cup {loc.altlist[k][2] : k \in 1..Len(loc.altlist)}] :
          /\ \A k \in 1..Len(loc.altlist) : nl[k] \in ReviewTexts(loc.altlist[k][2])
          /\ loc' = [loc EXCEPT !.naltlist = [k \in 1..Len(loc.altlist) |-> <<loc.altlist[k][1], nl[k]>>],
                                !.temp_dir = "removed"]
    /\ pc' = "merge"
    /\ UNCHANGED <<ret, E3, plang, titlemap, etypemap, imglst, bk>>
    /\ UNCHANGED DocVars

\* the review is cancelled: GetResults returns None (accessgui.py 214-217, 263-266)
ReviewCancelled ==
    /\ pc = "review"
    /\ Len(loc.altlist) > 0
    /\ loc' = [loc EXCEPT !.cancelled = TRUE, !.temp_dir = "removed"]
    /\ pc' = "merge"
    /\ UNCHANGED <<ret, E3, plang, titlemap, etypemap, imglst, bk>>
    /\ UNCHANGED DocVars

\* plugin.py 471 calls GUIUpdateFromList with three arguments, accessgui.py 259
\* defines it with two parameters: TypeError, and line 474 is not reached
ReviewRaise ==
    /\ pc = "review"
    /\ Len(loc.altlist) > 0
    /\ pc' = "raised"
    /\ ret' = "TypeError"
    /\ UNCHANGED <<E3, plang, titlemap, etypemap, imglst, bk, loc>>
    /\ UNCHANGED DocVars

\* plugin.py 480: for imgpath, altnew in None
MergeRaise ==
    /\ pc = "merge"
    /\ loc.cancelled
    /\ pc' = "raised"
    /\ ret' = "TypeError"
    /\ UNCHANGED <<E3, plang, titlemap, etypemap, imglst, bk, loc>>
    /\ UNCHANGED DocVars

\* the mutant of MergeStep that merges into the first image of the document
MergeStepFirstImage ==
    /\ pc = "merge"
    /\ ~loc.cancelled
    /\ loc.ptr < Len(loc.naltlist)
    /\ LET rec == imglst[loc.ptr + 1]
           altnew == loc.naltlist[loc.ptr + 1][2]
       IN  IF rec[5] # altnew
           THEN /\ bk' = [bk EXCEPT !.files[rec[1]] = update_alt_text(@, 1, rec[4], altnew),
                                    !.writes = Append(@, rec[1])]
                /\ loc' = [loc EXCEPT !.ptr = @ + 1,
                                      !.merged = Append(@, <<rec[1], rec[3], altnew>>)]
           ELSE /\ bk' = bk
                /\ loc' = [loc EXCEPT !.ptr = @ + 1]
    /\ UNCHANGED <<pc, ret, E3, plang, titlemap, etypemap, imglst>>
    /\ UNCHANGED DocVars

\* plugin.py 480-487: one iteration of the loop over the returned list
MergeStep ==
    /\ pc = "merge"
    /\ ~loc.cancelled
    /\ loc.ptr < Len(loc.naltlist)
    /\ LET rec == imglst[loc.ptr + 1]
           altnew == loc.naltlist[loc.ptr + 1][2]
       IN  IF rec[5] # altnew
           THEN /\ bk' = [bk EXCEPT !.files[rec[1]] = update_alt_text(@, rec[3], rec[4], altnew),
                                    !.writes = Append(@, rec[1])]
                /\ loc' = [loc EXCEPT !.ptr = @ + 1,
                                      !.merged = Append(@, <<rec[1], rec[3], altnew>>)]
           ELSE /\ bk' = bk
                /\ loc' = [loc EXCEPT !.ptr = @ + 1]
    /\ UNCHANGED <<pc, ret, E3, plang, titlemap, etypemap, imglst>>
    /\ UNCHANGED DocVars

\* plugin.py 489-495: the loop is over, run returns 0
Return0 ==
    /\ pc = "merge"
    /\ ~loc.cancelled
    /\ loc.ptr = Len(loc.naltlist)
    /\ pc' = "returned"
    /\ ret' = Success
    /\ UNCHANGED <<E3, plang, titlemap, etypemap, imglst, bk, loc>>
    /\ UNCHANGED DocVars

NextRun ==
    \/ CheckMedia \/ Metadata \/ CheckLang \/ CheckManifest \/ BuildMaps
    \/ ConvertDoc \/ Export \/ ExportRaise \/ ReviewSkipped \/ Review \/ ReviewCancelled \/ ReviewRaise
    \/ MergeRaise \/ MergeStep \/ Return0

SpecRun == InitRun /\ [][NextRun]_vars

(* ------------------------------------------------------------------ *)
(* The metadata loop of run (plugin.py 302-344), run after run           *)
(* ------------------------------------------------------------------ *)

\* runs of the plugin on one book
MaxMetaPasses == 2

\* the meta declarations of the metadata: those of MetaDecls, and the other
\* tag form of each accessibility declaration
MetaForms ==
    { MetaDecls[k] : k \in DOMAIN MetaDecls }
    \cup { <<TagEv("meta", "single", << <<"property", <<"schema:access", "Mode">>>> >>)>>,
           Elem("meta", << <<"name", <<"schema:access", "Mode">>>>,
                           <<"content", <<"textual">>>> >>, <<>>) }

\* bk.getmetadataxml() before the first run
MetaDocs == { MetaDoc(LangDecls[l], m) : l \in DOMAIN LangDecls, m \in MetaForms }

InitMeta ==
    /\ pc = "metadata"
    /\ args = NoCall
    /\ ret = None
    /\ E3 \in BOOLEAN
    /\ plang = PyNone
    /\ titlemap = <<>>
    /\ etypemap = <<>>
    /\ files = <<>>
    /\ before = <<>>
    /\ res = <<>>
    /\ imglst = <<>>
    /\ imgbefore = <<>>
    /\ passes = 0
    /\ merges = 0
    /\ upd = NoUpd
    /\ bk \in { [metaxml |-> d, metawrites |-> 0] : d \in MetaDocs }
    /\ loc = NoLocals

\* plugin.py 300-344 in one run of the plugin: the metadata loop over what
\* bk.getmetadataxml() returns, and bk.setmetadataxml
MetadataPass ==
    /\ pc = "metadata"
    /\ passes < MaxMetaPasses
    /\ LET st == MetaLoop(MetaStart, bk.metaxml, 1, Len(bk.metaxml), E3)
       IN  /\ plang' = st.plang
           /\ res' = st.res
           /\ bk' = [bk EXCEPT !.metaxml = JoinRes(st.res), !.metawrites = @ + 1]
    /\ before' = bk.metaxml
    /\ passes' = passes + 1
    /\ UNCHANGED <<pc, args, ret, E3, titlemap, etypemap, files, imglst, imgbefore,
                   merges, upd, loc>>

NextMeta == MetadataPass

SpecMeta == InitMeta /\ [][NextMeta]_vars

(* ------------------------------------------------------------------ *)
(* Claims                                                               *)
(* ------------------------------------------------------------------ *)

\* the tag names a role's entry of the role-compatibility table lists
ListedTags(role) ==
    LET t == _aria_role_allowed_tags[role]
    IN  IF t.py = "str" THEN {t.str} ELSE t.items

\* the general allowance of the tag-capability table
GeneralAllowance(tname, has_href, has_alt) ==
    /\ tname \in DOMAIN _all_role_tags
    /\ (_all_role_tags[tname][1] \/ ~has_href)
    /\ (~_all_role_tags[tname][2] \/ has_alt)

\* the specific allowance: the host tag is one of the tag names listed for the role
SpecificAllowance(role, tname) ==
    /\ role \in DOMAIN _aria_role_allowed_tags
    /\ tname \in ListedTags(role)

\* C1: inferRole returns the role mapped to the semantic type if and only if the
\* type is in the semantic-type table and the general allowance holds or the host
\* tag is exactly one of the tag names listed for the role; otherwise none.
C1_RoleOnlyUnderAllowances ==
    pc = "return" =>
        ret = IF /\ args.etype \in DOMAIN _epubtype_aria_map
                 /\ \/ GeneralAllowance(args.tname, args.has_href, args.has_alt)
                    \/ SpecificAllowance(_epubtype_aria_map[args.etype], args.tname)
              THEN _epubtype_aria_map[args.etype]
              ELSE None

\* the case C1 fails on: "tip" on an  a  tag with an href returns doc-tip
C1_TipOnAnchor ==
    /\ pc = "return"
    /\ args.etype = "tip" /\ args.tname = "a" /\ args.has_href
    /\ ret = "doc-tip"

\* the values of a space-delimited attribute of a tag, as the code reads them
ValuesOf(tattr, name) == parse_attribute(GetAttr(tattr, name, <<>>))

\* event i of the document the last pass read is a begin or single tag named tname
IsOpenTag(data, i, tname) ==
    /\ data[i].kind = "tag"
    /\ data[i].tname = tname
    /\ data[i].ttype \in {"begin", "single"}

\* the tag the last convert_xhtml emitted for the tag event i it read
Emitted(i) == res[i][Len(res[i])]

\* a span tag whose only semantic type is footnote
IsFootnoteSpan(data, i) ==
    /\ IsOpenTag(data, i, "span")
    /\ HasAttr(data[i].tattr, "epub:type")
    /\ GetAttr(data[i].tattr, "epub:type", <<>>) = <<"footnote">>

\* C2 (amended): for "footnote" on "span" inferRole returns doc-footnote for every
\* hasHref and hasAlt, and the rewriter, with role augmentation enabled, emits a
\* span tag whose only semantic type is footnote with the role doc-footnote.
C2_FootnoteOnSpanGetsRole ==
    /\ \A h \in BOOLEAN, a \in BOOLEAN :
          _role_from_etype("footnote", "span", h, a) = "doc-footnote"
    /\ (pc = "converted" /\ E3) =>
          \A i \in 1..Len(before) :
              IsFootnoteSpan(before, i) =>
                  InList(<<"doc-footnote">>, ValuesOf(Emitted(i).tattr, "role"))

\* C2 as stated: inferRole returns none for "footnote" on "span", and the rewriter
\* adds no role attribute to a span tag whose only semantic type is footnote.
C2_FootnoteOnSpanNoRole ==
    (pc = "converted" /\ E3) =>
        \A i \in 1..Len(before) :
            (IsFootnoteSpan(before, i) /\ ~HasAttr(before[i].tattr, "role"))
                => /\ \A h \in BOOLEAN, a \in BOOLEAN :
                         _role_from_etype("footnote", "span", h, a) = None
                   /\ ~HasAttr(Emitted(i).tattr, "role")

C2_Witness ==
    /\ pc = "converted" /\ E3 /\ passes = 1
    /\ \E i \in 1..Len(before) :
          /\ IsFootnoteSpan(before, i)
          /\ ~HasAttr(before[i].tattr, "role")
          /\ GetAttr(Emitted(i).tattr, "role", <<>>) = <<"doc-footnote">>

\* a section begin tag that carries epub:type="chapter" and no role
IsChapterSection(data, i) ==
    /\ IsOpenTag(data, i, "section")
    /\ data[i].ttype = "begin"
    /\ HasAttr(data[i].tattr, "epub:type")
    /\ GetAttr(data[i].tattr, "epub:type", <<>>) = <<"chapter">>
    /\ ~HasAttr(data[i].tattr, "role")

\* C3: for "chapter" on "section" with no href inferRole returns doc-chapter, and
\* the rewriter, with role augmentation enabled, emits role="doc-chapter" on a
\* section begin tag that carries epub:type="chapter" and no prior role.
C3_ChapterOnSection ==
    /\ \A a \in BOOLEAN : _role_from_etype("chapter", "section", FALSE, a) = "doc-chapter"
    /\ (pc = "converted" /\ E3) =>
          \A i \in 1..Len(before) :
              IsChapterSection(before, i) =>
                  /\ Emitted(i).tname = "section" /\ Emitted(i).ttype = "begin"
                  /\ HasAttr(Emitted(i).tattr, "role")
                  /\ GetAttr(Emitted(i).tattr, "role", <<>>) = <<"doc-chapter">>

C3_Witness ==
    /\ pc = "converted" /\ E3
    /\ \E i \in 1..Len(before) :
          /\ IsChapterSection(before, i)
          /\ GetAttr(Emitted(i).tattr, "role", <<>>) = <<"doc-chapter">>

\* the positions of the image occurrences of a document: img begin or single tags
ImgPositions(data) ==
    { i \in 1..Len(data) :
        data[i].kind = "tag" /\ data[i].tname = "img" /\ data[i].ttype \in {"begin", "single"} }

\* the position of the k-th image occurrence, 0 when there is none
KthImg(data, k) ==
    IF \E i \in ImgPositions(data) : Cardinality({j \in ImgPositions(data) : j =< i}) = k
    THEN CHOOSE i \in ImgPositions(data) : Cardinality({j \in ImgPositions(data) : j =< i}) = k
    ELSE 0

\* the attributes of a tag other than alt, in their order
OtherThanAlt(tattr) == SelectSeq(tattr, LAMBDA p : p[1] # "alt")

\* the merge pass changed nothing but the alt attribute of the k-th image, now alt
OnlyKthAltChanged(alt) ==
    /\ Len(files) = Len(before)
    /\ \A i \in 1..Len(before) :
          IF i = KthImg(before, upd.imgcnt)
          THEN /\ files[i].kind = "tag"
               /\ files[i].tname = before[i].tname
               /\ files[i].ttype = before[i].ttype
               /\ HasAttr(files[i].tattr, "alt")
               /\ GetAttr(files[i].tattr, "alt", <<>>) = alt
               /\ OtherThanAlt(files[i].tattr) = OtherThanAlt(before[i].tattr)
               /\ Cardinality({j \in 1..Len(files[i].tattr) : files[i].tattr[j][1] = "alt"}) = 1
          ELSE files[i] = before[i]

\* the reserved characters of the markup, as entities
Escaped(text) ==
    [i \in 1..Len(text) |->
        CASE text[i] = "&" -> <<"&", "amp", ";">>
          [] text[i] = "<" -> <<"&", "lt", ";">>
          [] text[i] = ">" -> <<"&", "gt", ";">>
          [] text[i] = "\"" -> <<"&", "quot", ";">>
          [] OTHER -> <<text[i]>>]

\* C4 (amended): the merge pass for ordinal k leaves the event stream as it was,
\* except that the alt attribute of the k-th image occurrence is the replacement
\* text with its reserved characters escaped; every other image, attribute, tag and
\* text is unchanged, and for k outside 1..n nothing is changed.
C4_MergeChangesOnlyTarget ==
    pc = "merged" => OnlyKthAltChanged(Flatten(Escaped(upd.alttext)))

\* C4 as stated: the alt attribute of the k-th image equals the replacement text.
C4_MergeSetsReplacementText ==
    pc = "merged" => OnlyKthAltChanged(upd.alttext)

C4_Witness ==
    /\ pc = "merged"
    /\ Cardinality(ImgPositions(before)) >= 2
    /\ upd.imgcnt = 2
    /\ upd.alttext = <<"R", "&", "D">>
    /\ GetAttr(files[KthImg(before, 2)].tattr, "alt", <<>>) = <<"R", "&", "amp", ";", "D">>
    /\ files # before

\* C4: an ordinal outside 1..n changes nothing
C4_WitnessOutside ==
    /\ pc = "merged"
    /\ Cardinality(ImgPositions(before)) >= 1
    /\ upd.imgcnt = Cardinality(ImgPositions(before)) + 1
    /\ files = before

\* C5: the image records of one rewriter pass carry the ordinals 1, 2, ..., n in
\* document order, n the number of img begin or single tags, one record for each
\* image occurrence; an image without an alt attribute has a record with empty alt.
C5_DenseOrdinals ==
    pc = "converted" =>
        /\ Len(imglst) = Cardinality(ImgPositions(before))
        /\ \A j \in 1..Len(imglst) :
              LET tattr == before[KthImg(before, j)].tattr
              IN  /\ imglst[j][3] = j
                  /\ imglst[j][1] = mid /\ imglst[j][2] = bookpath
                  /\ imglst[j][4] = GetAttr(tattr, "src", <<>>)
                  /\ imglst[j][5] = IF HasAttr(tattr, "alt") THEN GetAttr(tattr, "alt", <<>>)
                                    ELSE <<>>

C5_Witness ==
    /\ pc = "converted"
    /\ Len(imglst) >= 2
    /\ imglst[2][3] = 2
    /\ ~HasAttr(before[KthImg(before, 1)].tattr, "alt")
    /\ imglst[1][5] = <<>>

\* the position of the title tag of the head, 0 when there is none
HeadTitlePos(data) ==
    LET S == { i \in 1..Len(data) :
                 /\ data[i].kind = "tag" /\ data[i].tname = "title"
                 /\ data[i].ttype \in {"begin", "single"}
                 /\ PathBefore(data, i) = <<"html", "head">> }
    IN  IF S = {} THEN 0 ELSE CHOOSE i \in S : \A j \in S : i =< j

\* the position of the end tag of the title element that begins at i
TitleEndPos(data, i) ==
    CHOOSE j \in (i + 1)..Len(data) :
        /\ data[j].kind = "tag" /\ data[j].tname = "title" /\ data[j].ttype = "end"
        /\ \A m \in (i + 1)..(j - 1) : data[m].kind = "text"

\* the head title is a begin/end pair with no text but whitespace
EmptyTitlePair(data) ==
    /\ HeadTitlePos(data) # 0
    /\ data[HeadTitlePos(data)].ttype = "begin"
    /\ \A m \in (HeadTitlePos(data) + 1)..(TitleEndPos(data, HeadTitlePos(data)) - 1) :
          Strip(data[m].text) = <<>>

\* the head title is a self-closed tag
SelfClosedTitle(data) ==
    /\ HeadTitlePos(data) # 0
    /\ data[HeadTitlePos(data)].ttype = "single"

\* the head title is a begin/end pair with text that is not whitespace
NonEmptyTitle(data) ==
    /\ HeadTitlePos(data) # 0
    /\ data[HeadTitlePos(data)].ttype = "begin"
    /\ \E m \in (HeadTitlePos(data) + 1)..(TitleEndPos(data, HeadTitlePos(data)) - 1) :
          Strip(data[m].text) # <<>>

\* the TitleMap entry of the document, the empty string when the path is absent
MapEntry == IF bookpath \in DOMAIN titlemap THEN titlemap[bookpath] ELSE <<>>

\* the tag events at which the rewriter emitted a text that the input does not have
InjectionPositions ==
    { i \in 1..Len(before) :
        /\ before[i].kind = "tag"
        /\ \E k \in 1..(Len(res[i]) - 1) : res[i][k].kind = "text" }

\* the title of the head is filled: a self-closed title becomes begin tag, entry,
\* end tag; an empty pair is re-emitted with the entry before its end tag
HeadTitleFilled ==
    LET i == HeadTitlePos(before)
    IN  /\ SelfClosedTitle(before) =>
              res[i] = <<TagEv("title", "begin", before[i].tattr), TextEv(MapEntry),
                         TagEv("title", "end", <<>>)>>
        /\ EmptyTitlePair(before) =>
              LET j == TitleEndPos(before, i)
              IN  /\ res[i] = <<before[i]>>
                  /\ \A m \in (i + 1)..(j - 1) : res[m] = <<before[m]>>
                  /\ res[j] = <<TextEv(MapEntry), before[j]>>

\* C6: when the head title holds no text but whitespace (an empty begin/end pair or
\* a self-closed tag), the rewriter emits the TitleMap entry of the document's path
\* (the empty string when absent) as text between the title begin tag and the
\* title end tag, and it emits it exactly once.
C6_TitleBackfillOnce ==
    (pc = "converted" /\ (SelfClosedTitle(before) \/ EmptyTitlePair(before))) =>
        /\ HeadTitleFilled
        /\ Cardinality(InjectionPositions) = 1

\* where the entry of the head title goes: the self-closed tag, or the end tag
HeadTitleFillPos ==
    IF SelfClosedTitle(before) THEN HeadTitlePos(before)
    ELSE TitleEndPos(before, HeadTitlePos(before))

\* C6, the part that holds: the head title is filled with the entry, and nothing
\* else is injected under the head.
C6_HeadTitleBackfill ==
    pc = "converted" =>
        /\ HeadTitleFilled
        /\ (SelfClosedTitle(before) \/ EmptyTitlePair(before)) =>
              /\ HeadTitleFillPos \in InjectionPositions
              /\ \A i \in InjectionPositions :
                    PathBefore(before, i)[2] = "head" => i = HeadTitleFillPos

\* the case C6 fails on: the entry in the head title and again in a title under header
C6_InjectedTwice ==
    /\ pc = "converted" /\ passes = 1
    /\ EmptyTitlePair(before)
    /\ MapEntry = NewTitle
    /\ HeadTitleFilled
    /\ \E i \in InjectionPositions :
          /\ PathBefore(before, i) = <<"html", "body", "header", "svg">>
          /\ res[i][2] = TextEv(NewTitle)

\* C7: when the head title already holds text that is not whitespace, the rewriter
\* emits that text unchanged and injects nothing from the TitleMap: every event is
\* emitted as the one chunk it was, whatever the map holds for the path.
C7_ExistingTitleUntouched ==
    (pc = "converted" /\ NonEmptyTitle(before)) =>
        \A i \in 1..Len(before) :
            /\ Len(res[i]) = 1
            /\ before[i].kind = "text" => res[i] = <<before[i]>>

\* the case C7 fails on: the title of the map in a self-closed title under header
C7_InjectedUnderHeader ==
    /\ pc = "converted" /\ passes = 1
    /\ NonEmptyTitle(before)
    /\ \E i \in 1..Len(before) :
          /\ IsOpenTag(before, i, "title")
          /\ PathBefore(before, i) = <<"html", "body", "header", "svg">>
          /\ res[i] = <<TagEv("title", "begin", <<>>), TextEv(NewTitle), TagEv("title", "end", <<>>)>>

\* the whitespace-separated values of an attribute value
Tokens(value) == SplitWS(Strip(value), <<>>)

\* how often a value occurs among the values of attribute name of a tag
Count(v, tattr, name) ==
    LET t == Tokens(GetAttr(tattr, name, <<>>))
    IN  Cardinality({k \in 1..Len(t) : t[k] = v})

\* no attribute name occurs twice in a tag
NoDuplicateAttr(tattr) ==
    \A a \in 1..Len(tattr), b \in 1..Len(tattr) : tattr[a][1] = tattr[b][1] => a = b

\* C8: a rewriter pass over the output of a rewriter pass (same language, maps and
\* format) leaves one lang and one xml:lang on the html tag, adds no epub:type or
\* role value that the tag already had, and yields image records with the same
\* ordinals, and as many, as the pass before.
C8_SecondPassIdempotent ==
    (pc = "converted" /\ passes >= 2) =>
        /\ \A i \in 1..Len(before) :
              before[i].kind = "tag" =>
                  /\ NoDuplicateAttr(Emitted(i).tattr)
                  /\ IsOpenTag(before, i, "html") =>
                        /\ GetAttr(Emitted(i).tattr, "lang", <<>>) = plang
                        /\ GetAttr(Emitted(i).tattr, "xml:lang", <<>>) = plang
                        /\ Len(Emitted(i).tattr) = Len(before[i].tattr)
                  /\ \A name \in {"epub:type", "role"} :
                        \A v \in { Tokens(GetAttr(before[i].tattr, name, <<>>))[k] :
                                     k \in 1..Len(Tokens(GetAttr(before[i].tattr, name, <<>>))) } :
                            Count(v, Emitted(i).tattr, name) = Count(v, before[i].tattr, name)
        /\ Len(imglst) = Len(imgbefore)
        /\ \A j \in 1..Len(imglst) : imglst[j][3] = imgbefore[j][3]

C8_Witness ==
    /\ pc = "converted" /\ passes = 2 /\ E3
    /\ bookpath \in DOMAIN etypemap
    /\ Len(imglst) >= 1
    /\ \E i \in 1..Len(before) :
          /\ before[i].kind = "tag"
          /\ GetAttr(before[i].tattr, "id", <<>>) = <<"s1">>
          /\ InList(<<"chapter">>, Tokens(GetAttr(before[i].tattr, "epub:type", <<>>)))
          /\ InList(<<"doc-chapter">>, Tokens(GetAttr(before[i].tattr, "role", <<>>)))
          /\ Emitted(i) = before[i]

\* the preconditions of the fidelity claim: no image, no landmark entry for the
\* document, a head title with text
FidelityCase ==
    /\ pc = "converted"
    /\ ImgPositions(before) = {}
    /\ bookpath \notin DOMAIN etypemap
    /\ NonEmptyTitle(before)

\* every event was emitted as it was read
SameAsInput ==
    /\ files = before
    /\ \A i \in 1..Len(before) : res[i] = <<before[i]>>

\* the html tag carries the primary language already and, when role augmentation
\* is enabled, no tag carries epub:type: the language and role steps have nothing to add
AlreadyAnnotated ==
    \A i \in 1..Len(before) :
        /\ (before[i].kind = "tag" /\ before[i].tname = "html" /\ before[i].ttype = "begin") =>
              /\ HasAttr(before[i].tattr, "lang")
              /\ HasAttr(before[i].tattr, "xml:lang")
              /\ GetAttr(before[i].tattr, "lang", <<>>) = plang
              /\ GetAttr(before[i].tattr, "xml:lang", <<>>) = plang
        /\ (E3 /\ before[i].kind = "tag" /\ before[i].ttype \in {"begin", "single"}) =>
              ~HasAttr(before[i].tattr, "epub:type")

\* no title tag is self-closed
NoSelfClosedTitle ==
    \A i \in 1..Len(before) :
        ~(before[i].kind = "tag" /\ before[i].tname = "title" /\ before[i].ttype = "single")

\* C9: for a document with no images, no landmark entry and a head title with
\* text, the rewriter's output is identical to its input: every event is emitted
\* as it was read.
C9_FidelityAsStated ==
    FidelityCase => SameAsInput

\* C9, the part that holds: the output is identical to the input when, in addition,
\* the language and role steps have nothing to add and no title tag is self-closed.
C9_FidelityWithoutEmptyTitle ==
    (FidelityCase /\ AlreadyAnnotated /\ NoSelfClosedTitle) => SameAsInput

\* the case C9 fails on: nothing for the language, landmark, role and image steps
\* to add, and the output differs by a title injected under header
C9_ChangedUnderHeader ==
    /\ FidelityCase /\ AlreadyAnnotated /\ passes = 1
    /\ files # before
    /\ \E i \in InjectionPositions :
          PathBefore(before, i) = <<"html", "body", "header", "svg">>

\* C9: a document the rewriter leaves as it is
C9_Unchanged ==
    /\ FidelityCase /\ AlreadyAnnotated /\ NoSelfClosedTitle /\ E3 /\ passes = 1
    /\ \E i \in 1..Len(before) : IsOpenTag(before, i, "p") /\ HasAttr(before[i].tattr, "lang")
    /\ SameAsInput

\* C10: in one pass a tag whose id is the document's landmark fragment is emitted
\* with the landmark's semantic type in epub:type and with the role that inferRole
\* yields for that type on that tag; a section with id="s1" and nothing else, for
\* the landmark ("s1", "chapter"), is emitted as id="s1" epub:type="chapter"
\* role="doc-chapter".
C10_LandmarkThenRole ==
    (pc = "converted" /\ E3 /\ bookpath \in DOMAIN etypemap) =>
        LET fragment == etypemap[bookpath][2]
            etype == etypemap[bookpath][3]
        IN  \A i \in 1..Len(before) :
                ( /\ before[i].kind = "tag"
                  /\ before[i].ttype \in {"begin", "single"}
                  /\ HasAttr(before[i].tattr, "id")
                  /\ GetAttr(before[i].tattr, "id", <<>>) = fragment ) =>
                    LET tin == before[i]
                        tout == Emitted(i)
                        role == _role_from_etype(AsKey(etype), tin.tname,
                                                 HasAttr(tin.tattr, "href"),
                                                 HasAttr(tin.tattr, "alt") \/ tin.tname = "img")
                    IN  /\ InList(etype, Tokens(GetAttr(tout.tattr, "epub:type", <<>>)))
                        /\ role # None =>
                              InList(<<role>>, Tokens(GetAttr(tout.tattr, "role", <<>>)))
                        /\ ( /\ tin.tname = "section"
                             /\ tin.tattr = << <<"id", <<"s1">>>> >>
                             /\ fragment = <<"s1">> /\ etype = <<"chapter">> ) =>
                              tout.tattr = << <<"id", <<"s1">>>>, <<"epub:type", <<"chapter">>>>,
                                              <<"role", <<"doc-chapter">>>> >>

C10_Witness ==
    /\ pc = "converted" /\ E3 /\ passes = 1
    /\ bookpath \in DOMAIN etypemap
    /\ \E i \in 1..Len(before) :
          /\ IsOpenTag(before, i, "section")
          /\ before[i].tattr = << <<"id", <<"s1">>>> >>
          /\ Emitted(i).tattr = << <<"id", <<"s1">>>>, <<"epub:type", <<"chapter">>>>,
                                   <<"role", <<"doc-chapter">>>> >>

\* in_toc / in_lms at event i: the last nav begin tag with an epub:type before i
\* has this one
InNav(data, i, type) ==
    \E n \in 1..(i - 1) :
        /\ data[n].kind = "tag" /\ data[n].tname = "nav" /\ data[n].ttype = "begin"
        /\ GetAttr(data[n].tattr, "epub:type", <<>>) = <<type>>
        /\ \A m \in (n + 1)..(i - 1) :
              ~( /\ data[m].kind = "tag" /\ data[m].tname = "nav" /\ data[m].ttype = "begin"
                 /\ HasAttr(data[m].tattr, "epub:type") )

\* the toc anchors of the nav with an href: the places of their begin tags
TocAnchors(data) ==
    { i \in 1..Len(data) :
        /\ data[i].kind = "tag" /\ data[i].tname = "a" /\ data[i].ttype = "begin"
        /\ HasAttr(data[i].tattr, "href")
        /\ InNav(data, i, "toc") }

\* the document a toc anchor targets
TargetOf(data, i) == build_bookpath(UrlPath(GetAttr(data[i].tattr, "href", <<>>)))

\* the first toc anchor that targets a document
FirstAnchorTo(data, path) ==
    CHOOSE i \in TocAnchors(data) :
        /\ TargetOf(data, i) = path
        /\ \A j \in TocAnchors(data) : TargetOf(data, j) = path => i =< j

\* C11: after the pass over the nav the TitleMap entry of each document that a toc
\* anchor targets is the label of the first toc anchor that targets it, also when
\* anchors to other documents come in between.
C11_FirstLabelWins ==
    pc = "nav_parsed" =>
        \A i \in TocAnchors(bk.nav) :
            LET path == TargetOf(bk.nav, i)
            IN  /\ path \in DOMAIN titlemap
                /\ titlemap[path] = bk.nav[FirstAnchorTo(bk.nav, path) + 1].text

\* the case C11 fails on: anchors to doc1, doc2, doc1, and doc1 holds the third label
C11_ThirdLabelWon ==
    /\ pc = "nav_parsed"
    /\ \E i, j, k \in TocAnchors(bk.nav) :
          /\ i < j /\ j < k
          /\ TargetOf(bk.nav, i) = otherpath
          /\ TargetOf(bk.nav, j) = bookpath
          /\ TargetOf(bk.nav, k) = otherpath
          /\ titlemap[otherpath] = bk.nav[k + 1].text
          /\ titlemap[otherpath] # bk.nav[i + 1].text

\* a toc anchor that starts a run: the toc anchor before it targets another document
StartsRun(data, i) ==
    \A j \in TocAnchors(data) :
        (j < i /\ \A m \in TocAnchors(data) : ~(j < m /\ m < i)) =>
            TargetOf(data, j) # TargetOf(data, i)

\* C11, the part that holds: the entry of a document is the label of the anchor
\* that starts the last run of successive toc anchors to it, so an anchor to the
\* document of the anchor right before it changes nothing.
C11_FirstOfLastRun ==
    pc = "nav_parsed" =>
        \A i \in TocAnchors(bk.nav) :
            ( /\ StartsRun(bk.nav, i)
              /\ \A k \in TocAnchors(bk.nav) :
                    (k > i /\ TargetOf(bk.nav, k) = TargetOf(bk.nav, i)) => ~StartsRun(bk.nav, k) ) =>
                titlemap[TargetOf(bk.nav, i)] = bk.nav[i + 1].text

\* the content references of the ncx: content tags with a src under a navPoint
ContentRefs(data) ==
    { i \in 1..Len(data) :
        /\ data[i].kind = "tag" /\ data[i].tname = "content"
        /\ HasAttr(data[i].tattr, "src")
        /\ PrefixEndsWith(PathBefore(data, i), "navpoint") }

\* the document a content reference targets
NcxTargetOf(data, i) == build_bookpath(UrlPath(GetAttr(data[i].tattr, "src", <<>>)))

\* the label pending at a content reference: the last navLabel text before it, if no
\* content reference lies in between
PendingAt(data, i) ==
    LET T == { t \in 1..(i - 1) :
                 /\ data[t].kind = "text" /\ InNavLabelText(PathBefore(data, t))
                 /\ \A c \in ContentRefs(data) : ~(t < c /\ c < i) }
    IN  IF T = {} THEN PyNone
        ELSE Strip(data[CHOOSE t \in T : \A u \in T : u =< t].text)

\* the first content reference that targets a document
FirstRefTo(data, path) ==
    CHOOSE i \in ContentRefs(data) :
        /\ NcxTargetOf(data, i) = path
        /\ \A j \in ContentRefs(data) : NcxTargetOf(data, j) = path => i =< j

\* the content reference that starts the run of successive references to one
\* document of which j is part
FirstRun(data, j) ==
    CHOOSE i \in ContentRefs(data) :
        /\ i =< j
        /\ \A m \in ContentRefs(data) : (i =< m /\ m =< j) => NcxTargetOf(data, m) = NcxTargetOf(data, j)
        /\ \A h \in ContentRefs(data) :
              (h < i /\ \A m \in ContentRefs(data) : ~(h < m /\ m < i)) =>
                  NcxTargetOf(data, h) # NcxTargetOf(data, j)

\* the pending label is None right after a content reference
LabelCleared ==
    (pc = "parse_ncx" /\ ~loc.raised /\ (loc.i - 1) \in ContentRefs(bk.ncx)) =>
        loc.navlabel = PyNone

\* C12: in the pass over the ncx every content reference clears the pending label,
\* and after the pass the TitleMap entry of each referenced document is the label
\* that was pending at the first content reference to it: later references to the
\* same document never change the entry.
C12_FirstReferenceWins ==
    /\ LabelCleared
    /\ pc = "ncx_parsed" =>
          \A i \in ContentRefs(bk.ncx) :
              LET path == NcxTargetOf(bk.ncx, i)
              IN  /\ path \in DOMAIN titlemap
                  /\ titlemap[path] = PendingAt(bk.ncx, FirstRefTo(bk.ncx, path))

\* the case C12 fails on: references to doc1, doc2, doc1, each with its label, and
\* doc1 holds the third label
C12_ThirdLabelWon ==
    /\ pc = "ncx_parsed"
    /\ \E i, j, k \in ContentRefs(bk.ncx) :
          /\ i < j /\ j < k
          /\ NcxTargetOf(bk.ncx, i) = otherpath
          /\ NcxTargetOf(bk.ncx, j) = bookpath
          /\ NcxTargetOf(bk.ncx, k) = otherpath
          /\ PendingAt(bk.ncx, i) = <<Labels[1]>>
          /\ titlemap[otherpath] = <<Labels[3]>>

\* C12, the part that holds: the pending label is cleared after every content
\* reference, and a reference to the document of the reference right before it
\* changes nothing.
C12_ClearedAndRepeatIgnored ==
    /\ LabelCleared
    /\ (pc = "parse_ncx" /\ ~loc.raised /\ (loc.i - 1) \in ContentRefs(bk.ncx)) =>
          \A j \in ContentRefs(bk.ncx) :
              ( /\ j < loc.i - 1
                /\ \A m \in ContentRefs(bk.ncx) : ~(j < m /\ m < loc.i - 1)
                /\ NcxTargetOf(bk.ncx, j) = NcxTargetOf(bk.ncx, loc.i - 1) ) =>
                  titlemap[NcxTargetOf(bk.ncx, j)] = PendingAt(bk.ncx, FirstRun(bk.ncx, j))

\* the landmark anchors of the nav with an href and an epub:type
LmAnchors(data) ==
    { i \in 1..Len(data) :
        /\ data[i].kind = "tag" /\ data[i].tname = "a" /\ data[i].ttype = "begin"
        /\ HasAttr(data[i].tattr, "href") /\ HasAttr(data[i].tattr, "epub:type")
        /\ InNav(data, i, "landmarks") }

\* those whose href has a fragment
FragmentAnchors(data) ==
    { i \in LmAnchors(data) : UrlFragment(GetAttr(data[i].tattr, "href", <<>>)) # <<>> }

\* the last landmark anchor with a fragment that targets a document
LastFragmentAnchorTo(data, path) ==
    CHOOSE i \in FragmentAnchors(data) :
        /\ TargetOf(data, i) = path
        /\ \A j \in FragmentAnchors(data) : TargetOf(data, j) = path => j =< i

\* C13: every LandmarkMap record has locator kind "id" and a fragment that is not
\* empty, at every point of the pass over the nav; after the pass the map is what
\* the landmark anchors with a fragment alone make it: an anchor whose href has no
\* fragment adds, changes and removes no record.
C13_OnlyFragmentLandmarks ==
    /\ \A path \in DOMAIN etypemap :
          etypemap[path][1] = "id" /\ etypemap[path][2] # <<>>
    /\ pc = "nav_parsed" =>
          /\ DOMAIN etypemap = { TargetOf(bk.nav, i) : i \in FragmentAnchors(bk.nav) }
          /\ \A path \in DOMAIN etypemap :
                LET tattr == bk.nav[LastFragmentAnchorTo(bk.nav, path)].tattr
                IN  etypemap[path] = <<"id", UrlFragment(GetAttr(tattr, "href", <<>>)),
                                       GetAttr(tattr, "epub:type", <<>>)>>

C13_Witness ==
    /\ pc = "nav_parsed"
    /\ \E i \in FragmentAnchors(bk.nav), j \in LmAnchors(bk.nav) \ FragmentAnchors(bk.nav) :
          /\ i < j
          /\ GetAttr(bk.nav[j].tattr, "href", <<>>) = <<"doc2.xhtml">>
    /\ \E j \in LmAnchors(bk.nav) : GetAttr(bk.nav[j].tattr, "href", <<>>) = <<"nav.xhtml", "#">>
    /\ DOMAIN etypemap = {otherpath}

(* ------------------------------------------------------------------ *)
(* Claims about run                                                     *)
(* ------------------------------------------------------------------ *)

\* a meta declaration, of either tag form, whose property or name begins
\* with schema:access
AccessDecl(ev, forms) ==
    /\ ev.kind = "tag" /\ ev.tname = "meta" /\ ev.ttype \in forms
    /\ \/ HasAttr(ev.tattr, "property") /\ StartsWithAccess(GetAttr(ev.tattr, "property", <<>>))
       \/ HasAttr(ev.tattr, "name") /\ StartsWithAccess(GetAttr(ev.tattr, "name", <<>>))

HasAccessDecl(data, forms) == \E i \in 1..Len(data) : AccessDecl(data[i], forms)

\* the fragment with the accessibility block right before its closing event
WithBlock(data, e3) ==
    SubSeq(data, 1, Len(data) - 1) \o AccessBlock(e3) \o <<data[Len(data)]>>

\* the metadata loop has run and its result is stored
MetadataStored == bk # NoBook /\ bk.metawrites = 1

\* C14: the stored metadata is the fragment with the accessibility block before
\* its closing event if the fragment holds no meta declaration, of any tag form,
\* whose property or name begins with schema:access, and the fragment itself
\* if it holds one
C14_BlockIffNoDeclaration ==
    MetadataStored =>
        bk.metaxml = IF HasAccessDecl(loc.start.metaxml, {"begin", "single"})
                     THEN loc.start.metaxml
                     ELSE WithBlock(loc.start.metaxml, E3)

\* a fragment with <meta name="schema:accessMode" content="textual"/> got the block
C14_BlockBesideSelfClosedDeclaration ==
    /\ MetadataStored
    /\ HasAccessDecl(loc.start.metaxml, {"single"})
    /\ bk.metaxml = WithBlock(loc.start.metaxml, E3)

\* what the code does: only the declarations in opening-tag form count
C14_BlockIffNoOpeningDeclaration ==
    MetadataStored =>
        bk.metaxml = IF HasAccessDecl(loc.start.metaxml, {"begin"})
                     THEN loc.start.metaxml
                     ELSE WithBlock(loc.start.metaxml, E3)

\* the text events under a dc:language element
LanguageTexts(data) ==
    { i \in 1..Len(data) :
        data[i].kind = "text" /\ PrefixEndsWith(PathBefore(data, i), "dc:language") }

\* a fatal precondition failure of the book: audio or video, no primary
\* language, or, for an epub3, no nav, MathML or scripted content
Fatal(b, e3) ==
    \/ HasAudioVideo(b.media)
    \/ LanguageTexts(b.metaxml) = {}
    \/ /\ e3
       /\ \/ \A k \in 1..Len(b.manifest) : ~InProps("nav", b.manifest[k][2])
          \/ \E k \in 1..Len(b.manifest) : InProps("mathml", b.manifest[k][2])
          \/ \E k \in 1..Len(b.manifest) : InProps("scripted", b.manifest[k][2])

\* run is past its precondition checks
PastChecks == pc \in {"maps", "convert", "review", "merge", "raised"} \/ ret = Success

\* C15: a book with a fatal precondition failure never gets past the checks, and
\* when run ends with the non-zero result no content document has been written:
\* no bk.writefile call was made and every document is as it was at the start
C15_NoDocumentWrittenOnFailure ==
    /\ Fatal(loc.start, E3) => ~PastChecks
    /\ ret = Failure =>
          /\ Fatal(loc.start, E3)
          /\ bk.writes = <<>>
          /\ bk.files = loc.start.files

\* an epub3 with MathML has ended with the non-zero result after the metadata loop
C15_Witness ==
    /\ pc = "returned" /\ ret = Failure /\ E3
    /\ \E k \in 1..Len(bk.manifest) : InProps("mathml", bk.manifest[k][2])
    /\ ~HasAudioVideo(bk.media) /\ plang # PyNone
    /\ bk.writes = <<>>

\* C16: when run ends with the non-zero result the stored package metadata is
\* the fragment the book had before the run: bk.setmetadataxml was not called
C16_MetadataKeptOnFailure ==
    ret = Failure => bk.metawrites = 0 /\ bk.metaxml = loc.start.metaxml

\* a book without a primary language: the rewritten metadata, accessibility
\* block included, was stored and then run ended with the non-zero result
C16_StoredThenFailed ==
    /\ pc = "returned" /\ ret = Failure
    /\ LanguageTexts(loc.start.metaxml) = {}
    /\ bk.metawrites = 1
    /\ bk.metaxml = WithBlock(loc.start.metaxml, E3)

\* what the code does: only the audio/video failure leaves the stored metadata
\* alone, every later failure comes after bk.setmetadataxml
C16_MetadataKeptOnlyOnAudioVideo ==
    ret = Failure =>
        IF HasAudioVideo(bk.media)
        THEN bk.metawrites = 0 /\ bk.metaxml = loc.start.metaxml
        ELSE bk.metawrites = 1

\* the first of a non-empty set of positions
FirstOf(positions) == CHOOSE i \in positions : \A j \in positions : i =< j

\* C17: once the metadata loop has run, the primary language is the text of the
\* first language declaration of the fragment, whatever declarations follow it;
\* a book without one keeps no primary language, never gets past the checks and
\* ends with the non-zero result
C17_FirstLanguageWins ==
    MetadataStored =>
        LET data == loc.start.metaxml
            texts == LanguageTexts(data)
        IN  IF texts # {}
            THEN plang = data[FirstOf(texts)].text
            ELSE /\ plang = PyNone
                 /\ ~PastChecks
                 /\ pc = "returned" => ret = Failure

\* a book that declares fr and then en was converted with fr
C17_Witness ==
    /\ MetadataStored
    /\ Cardinality(LanguageTexts(loc.start.metaxml)) = 2
    /\ plang = <<"fr">>
    /\ pc = "returned" /\ ret = Success

\* run is over: it returned, or an exception left it
RunOver == pc \in {"returned", "raised"}

C18_CancelledKeepsDocuments ==
    loc.cancelled =>
        /\ loc.merged = <<>>
        /\ bk.files = loc.converted
        /\ pc # "returned"

\* a merge pass was invoked for the j-th image of the review
MergedFor(j) ==
    \E k \in 1..Len(loc.merged) :
        loc.merged[k][1] = imglst[j][1] /\ loc.merged[k][2] = imglst[j][3]

\* the j-th image came back from the review with the text it was shown with
ReturnedAsShown(j) == loc.naltlist[j][2] = loc.altlist[j][2]

C19_MergedIffDiffersFromAttribute ==
    \A j \in 1..loc.ptr : MergedFor(j) <=> loc.naltlist[j][2] # imglst[j][5]

\* the maps the k-th Document Rewriter pass of run was given
SeenMaps(k) == loc.seen[k]

\* C20: the two maps are built once, before the first document is converted, and
\* every Document Rewriter pass is given the same maps, which are still the maps
\* of run after the conversions and through the merge passes
C20_MapsBuiltOnceAndFixed ==
    /\ loc.built =< 1
    /\ loc.seen # <<>> => loc.built = 1
    /\ \A k \in 1..Len(loc.seen) : SeenMaps(k) = <<titlemap, etypemap>>
    /\ pc \in {"convert", "review", "merge", "returned"} /\ ret # Failure =>
          /\ titlemap = (IF E3 THEN parse_nav(bk.nav)[1] ELSE parse_ncx(bk.ncx).titlemap)
          /\ etypemap = (IF E3 THEN parse_nav(bk.nav)[2] ELSE <<>>)

\* an epub3 run that converted both documents, merged an alt text and returned:
\* both documents were given the same non-empty maps
C20_Witness ==
    /\ pc = "returned" /\ ret = Success /\ E3
    /\ Len(loc.seen) = 2
    /\ loc.merged # <<>>
    /\ SeenMaps(1) = SeenMaps(2)
    /\ DOMAIN titlemap # {} /\ DOMAIN etypemap # {}

\* C21: no run ends with temp_dir still present
C21_TempDirRemovedAtEnd == RunOver => loc.temp_dir # "exists"

\* the call of the review surface raised and run ended with temp_dir present
C21_TempDirLeftBehind ==
    /\ pc = "raised" /\ ret = "TypeError"
    /\ ~loc.cancelled
    /\ loc.altlist # <<>>
    /\ loc.temp_dir = "exists"

\* what the code does: temp_dir is removed when run returns 0 and when the review
\* is cancelled; it stays exactly when an exception leaves run between lines 417
\* and 474
C21_TempDirRemovedUnlessRaisedBefore474 ==
    RunOver =>
        (loc.temp_dir = "exists" <=> pc = "raised" /\ ret \in {"OSError", "TypeError"} /\ ~loc.cancelled)

\* the image records of one document: one for each image occurrence, in order
DocRecords(m, path, data) ==
    [k \in 1..Cardinality(ImgPositions(data)) |->
        LET tattr == data[KthImg(data, k)].tattr
        IN  <<m, path, k, GetAttr(tattr, "src", <<>>), GetAttr(tattr, "alt", <<>>)>>]

\* the image records of the documents from the n-th on, in iteration order
RECURSIVE RecordsFrom(_, _)
RecordsFrom(b, n) ==
    IF n > Len(b.texts) THEN <<>>
    ELSE DocRecords(b.texts[n][1], b.texts[n][2], b.files[b.texts[n][1]])
         \o RecordsFrom(b, n + 1)

\* new is old with the alt attribute of its k-th image set to alt, nothing else changed
AltOfKthSet(old, new, k, alt) ==
    /\ Len(new) = Len(old)
    /\ KthImg(old, k) # 0
    /\ \A i \in 1..Len(old) :
          IF i = KthImg(old, k)
          THEN /\ new[i].kind = "tag"
               /\ new[i].tname = old[i].tname /\ new[i].ttype = old[i].ttype
               /\ GetAttr(new[i].tattr, "alt", <<>>) = alt
               /\ OtherThanAlt(new[i].tattr) = OtherThanAlt(old[i].tattr)
          ELSE new[i] = old[i]

\* the image list of run is the concatenation of the documents' records
ImageListInOrder ==
    pc \in {"review", "merge"} => imglst = RecordsFrom(loc.start, 1)

\* the merge loop handles the pair after the ptr pairs it has handled: the pair
\* stands for the record at the same position, and a merge pass, if there is one,
\* sets the alt of that record's image in that record's document, nothing else
PairMergedIntoItsRecord ==
    (pc = "merge" /\ loc'.ptr = loc.ptr + 1) =>
        LET j == loc.ptr + 1
            rec == imglst[j]
            altnew == loc.naltlist[j][2]
        IN  /\ Len(loc.naltlist) = Len(imglst)
            /\ loc.naltlist[j][1] = ImgPath(rec[4])
            /\ \A d \in DOMAIN bk.files : d # rec[1] => bk'.files[d] = bk.files[d]
            /\ IF loc'.merged # loc.merged
               THEN /\ loc'.merged = Append(loc.merged, <<rec[1], rec[3], altnew>>)
                    /\ AltOfKthSet(bk.files[rec[1]], bk'.files[rec[1]], rec[3],
                                   Flatten(Escaped(altnew)))
               ELSE bk'.files = bk.files

OrdinalsAsDiscovered ==
    /\ Cardinality(ImgPositions(files)) = Len(imglst)
    /\ \A k \in 1..Len(imglst) :
          /\ imglst[k][3] = k
          /\ GetAttr(files[KthImg(files, k)].tattr, "src", <<>>) = imglst[k][4]

\* merge passes for two distinct ordinals give the same document in either order
MergesCommute ==
    \A k1 \in 1..Len(imglst), k2 \in 1..Len(imglst), a1 \in NewAlts, a2 \in NewAlts :
        k1 # k2 =>
            update_alt_text(update_alt_text(files, k1, <<>>, a1), k2, <<>>, a2)
                = update_alt_text(update_alt_text(files, k2, <<>>, a2), k1, <<>>, a1)

\* C23: after the Document Rewriter and after every Alt-Text Merge Pass that
\* follows it, the document has the images counted at discovery in the same
\* order, a merge pass touches no event but the image of the record with its
\* ordinal, and merge passes for distinct ordinals commute
C23_OrdinalsStable ==
    pc \in {"converted", "merged"} =>
        /\ OrdinalsAsDiscovered
        /\ ImgPositions(files) = ImgPositions(before)
        /\ pc = "merged" =>
              \A i \in 1..Len(before) :
                  files[i] # before[i] => i = KthImg(before, upd.imgcnt)
        /\ MergesCommute

\* a document with two images after a merge pass for its second image
C23_Witness ==
    /\ pc = "merged"
    /\ Len(imglst) = 2
    /\ upd.imgcnt = 2
    /\ files[KthImg(before, 2)] # before[KthImg(before, 2)]
    /\ files[KthImg(before, 1)] = before[KthImg(before, 1)]

\* the tag emitted for tag i has the attribute name exactly as tag i had it
SameAttr(i, name) ==
    /\ HasAttr(Emitted(i).tattr, name) = HasAttr(before[i].tattr, name)
    /\ GetAttr(Emitted(i).tattr, name, <<>>) = GetAttr(before[i].tattr, name, <<>>)

\* C24: every html begin tag is emitted with lang and xml:lang equal to the
\* primary language, whatever it had; every other tag is emitted with the lang
\* and xml:lang it had, or without them if it had none
C24_LangOnRootOnly ==
    pc = "converted" =>
        \A i \in 1..Len(before) :
            before[i].kind = "tag" =>
                IF before[i].tname = "html" /\ before[i].ttype = "begin"
                THEN /\ HasAttr(Emitted(i).tattr, "lang")
                     /\ HasAttr(Emitted(i).tattr, "xml:lang")
                     /\ GetAttr(Emitted(i).tattr, "lang", <<>>) = plang
                     /\ GetAttr(Emitted(i).tattr, "xml:lang", <<>>) = plang
                ELSE SameAttr(i, "lang") /\ SameAttr(i, "xml:lang")

\* <html lang="fr"> was emitted with lang and xml:lang en, <p lang="fr"> as it was
C24_Witness ==
    /\ pc = "converted" /\ passes = 1
    /\ \E i \in 1..Len(before) :
          /\ IsOpenTag(before, i, "html")
          /\ before[i].tattr = << <<"lang", <<"fr">>>> >>
          /\ Emitted(i).tattr = << <<"lang", en>>, <<"xml:lang", en>> >>
    /\ \E i \in 1..Len(before) :
          /\ IsOpenTag(before, i, "p")
          /\ before[i].tattr = << <<"lang", <<"fr">>>> >>
          /\ Emitted(i).tattr = before[i].tattr

\* tag i is a begin or self-closing tag whose id is the landmark fragment of the document
IsLandmarkTag(i) ==
    /\ bookpath \in DOMAIN etypemap
    /\ before[i].ttype \in {"begin", "single"}
    /\ HasAttr(before[i].tattr, "id")
    /\ GetAttr(before[i].tattr, "id", <<>>) = etypemap[bookpath][2]

\* the emitted epub:type of tag i is the deduplicating append of the landmark's
\* type to the values of the tag
DedupAppended(i) ==
    LET orig == Tokens(GetAttr(before[i].tattr, "epub:type", <<>>))
        etype == etypemap[bookpath][3]
    IN  IF InList(etype, orig)
        THEN SameAttr(i, "epub:type")
        ELSE Tokens(GetAttr(Emitted(i).tattr, "epub:type", <<>>)) = Append(orig, etype)

\* C25: a tag whose id is the landmark fragment is emitted with its epub:type
\* values in their order, followed by the landmark's type if it was not among
\* them, and with its epub:type unchanged if it was; every other tag keeps its
\* epub:type as it was
C25_LandmarkDedupAppend ==
    pc = "converted" =>
        \A i \in 1..Len(before) :
            before[i].kind = "tag" =>
                IF IsLandmarkTag(i) THEN DedupAppended(i)
                ELSE SameAttr(i, "epub:type")

\* epub:type="chapter<TAB>part" with the landmark type chapter was emitted as
\* "chapter<TAB>part chapter"
C25_DuplicateAppended ==
    /\ pc = "converted" /\ passes = 1
    /\ \E i \in 1..Len(before) :
          /\ before[i].kind = "tag" /\ IsLandmarkTag(i)
          /\ GetAttr(before[i].tattr, "epub:type", <<>>) = <<"chapter", "\t", "part">>
          /\ etypemap[bookpath][3] = <<"chapter">>
          /\ GetAttr(Emitted(i).tattr, "epub:type", <<>>)
                = <<"chapter", "\t", "part", " ", "chapter">>

\* what the code does: the append deduplicates against the values parse_attribute
\* yields, which is the whole attribute when it holds no blank
C25_DedupAgainstParsedValues ==
    pc = "converted" =>
        \A i \in 1..Len(before) :
            before[i].kind = "tag" =>
                IF IsLandmarkTag(i)
                THEN LET orig == parse_attribute(GetAttr(before[i].tattr, "epub:type", <<>>))
                         etype == etypemap[bookpath][3]
                     IN  IF InList(etype, orig)
                         THEN SameAttr(i, "epub:type")
                         ELSE GetAttr(Emitted(i).tattr, "epub:type", <<>>)
                                  = Join(Append(orig, etype))
                ELSE SameAttr(i, "epub:type")

\* the role values the claim expects on the tag emitted for tag i: the role
\* values of the tag, then the roles inferred for its epub:type values that
\* are not yet in the list
ExpectedRoles(i) ==
    AddRoles(Tokens(GetAttr(Emitted(i).tattr, "epub:type", <<>>)),
             Tokens(GetAttr(before[i].tattr, "role", <<>>)),
             before[i].tname,
             HasAttr(before[i].tattr, "href"),
             HasAttr(Emitted(i).tattr, "alt"))

\* tag i is emitted with the expected role values, and with the role attribute
\* it had, or none, when there is nothing to list
RolesMerged(i) ==
    IF /\ E3 /\ before[i].ttype \in {"begin", "single"}
       /\ HasAttr(Emitted(i).tattr, "epub:type")
       /\ ExpectedRoles(i) # <<>>
    THEN Tokens(GetAttr(Emitted(i).tattr, "role", <<>>)) = ExpectedRoles(i)
    ELSE SameAttr(i, "role")

\* the value holds no whitespace but blanks
OnlyBlanks(value) == \A k \in 1..Len(value) : value[k] \in WS => value[k] = " "

\* C26: the emitted role attribute lists the role values of the tag in their
\* order, followed by each role inferred for the epub:type values, in their
\* order, that is not already listed; with no role value and no inferred role no
\* role attribute is added
C26_RoleMergeDedup ==
    pc = "converted" =>
        \A i \in 1..Len(before) : before[i].kind = "tag" => RolesMerged(i)

\* role="doc-part<TAB>doc-chapter" epub:type="chapter" was emitted with
\* role="doc-part<TAB>doc-chapter doc-chapter"
C26_DuplicateRoleAppended ==
    /\ pc = "converted" /\ passes = 1 /\ E3
    /\ \E i \in 1..Len(before) :
          /\ IsOpenTag(before, i, "section")
          /\ GetAttr(before[i].tattr, "role", <<>>) = <<"doc-part", "\t", "doc-chapter">>
          /\ GetAttr(before[i].tattr, "epub:type", <<>>) = <<"chapter">>
          /\ GetAttr(Emitted(i).tattr, "role", <<>>)
                = <<"doc-part", "\t", "doc-chapter", " ", "doc-chapter">>

\* what the code does: the merge is as claimed on every tag whose role and
\* epub:type values are separated by blanks only
C26_RoleMergeDedupOnBlanks ==
    pc = "converted" =>
        \A i \in 1..Len(before) :
            ( /\ before[i].kind = "tag"
              /\ OnlyBlanks(GetAttr(before[i].tattr, "role", <<>>))
              /\ OnlyBlanks(GetAttr(before[i].tattr, "epub:type", <<>>)) ) => RolesMerged(i)

\* the accessibility declarations of a fragment, of either tag form
AccessDecls(data) ==
    { i \in 1..Len(data) : AccessDecl(data[i], {"begin", "single"}) }

\* C27: a pass of the Metadata Annotator over the output of a pass leaves the
\* number of accessibility declarations as it was, in an epub3 and in an epub2
C27_SecondPassAppendsNothing ==
    (pc = "metadata" /\ passes >= 2) =>
        Cardinality(AccessDecls(bk.metaxml)) = Cardinality(AccessDecls(before))

\* an epub2 without declarations has the name/content block twice after two passes
C27_LegacyBlockTwice ==
    /\ pc = "metadata" /\ passes = 2 /\ ~E3
    /\ Cardinality(AccessDecls(before)) = 5
    /\ Cardinality(AccessDecls(bk.metaxml)) = 10
    /\ bk.metaxml = WithBlock(before, FALSE)

\* what the code does: in an epub3 a pass over the output of a pass changes
\* nothing; in an epub2 it appends the block again unless the fragment holds a
\* declaration in opening-tag form
C27_SecondPassByFormat ==
    (pc = "metadata" /\ passes >= 2) =>
        bk.metaxml = IF E3 \/ HasAccessDecl(before, {"begin"})
                     THEN before ELSE WithBlock(before, FALSE)

\* the alt attribute of the j-th image of the run, as the documents now hold it
StoredAlt(j) ==
    LET data == bk.files[imglst[j][1]]
    IN  GetAttr(data[KthImg(data, imglst[j][3])].tattr, "alt", <<>>)

C28_RoundTripsOfEncodedValues ==
    (pc = "returned" /\ ret = Success) =>
        \A j \in 1..Len(imglst) :
            /\ xmldecode(xmlencode(loc.naltlist[j][2])) = loc.naltlist[j][2]
            /\ MergedFor(j) => xmldecode(StoredAlt(j)) = loc.naltlist[j][2]
            /\ (ReturnedAsShown(j) /\ xmlencode(xmldecode(imglst[j][5])) = imglst[j][5])
                  => StoredAlt(j) = imglst[j][5]


\* the tags of a document that have an id, in document order
IdTags(data) == SelectSeq(data, LAMBDA e : e.kind = "tag" /\ HasAttr(e.tattr, "id"))

\* the epub:type values of the tags without an id, in document order
TypesWithoutId(data) ==
    LET tags == SelectSeq(data, LAMBDA e : /\ e.kind = "tag" /\ ~HasAttr(e.tattr, "id")
                                          /\ HasAttr(e.tattr, "epub:type"))
    IN  [k \in 1..Len(tags) |-> GetAttr(tags[k].tattr, "epub:type", <<>>)]

\* the record the last landmark anchor with a fragment makes for a document
LastLandmarkOf(path) ==
    LET tattr == bk.nav[LastFragmentAnchorTo(bk.nav, path)].tattr
    IN  <<"id", UrlFragment(GetAttr(tattr, "href", <<>>)), GetAttr(tattr, "epub:type", <<>>)>>

\* the documents that landmark anchors with a fragment target
LandmarkTargets == { TargetOf(bk.nav, i) : i \in FragmentAnchors(bk.nav) }

\* the k-th content document, converted: of its tags only those whose id is the
\* fragment of the last landmark anchor to it have a changed epub:type, which
\* then holds that anchor's type
InjectedOnLastOnly(k) ==
    LET m == bk.texts[k][1]
        path == bk.texts[k][2]
        orig == IdTags(loc.start.files[m])
        conv == IdTags(bk.files[m])
    IN  /\ Len(conv) = Len(orig)
        /\ TypesWithoutId(bk.files[m]) = TypesWithoutId(loc.start.files[m])
        /\ \A n \in 1..Len(orig) :
              /\ GetAttr(conv[n].tattr, "id", <<>>) = GetAttr(orig[n].tattr, "id", <<>>)
              /\ IF /\ E3 /\ path \in LandmarkTargets
                    /\ GetAttr(orig[n].tattr, "id", <<>>) = LastLandmarkOf(path)[2]
                 THEN \E v \in 1..Len(parse_attribute(GetAttr(conv[n].tattr, "epub:type", <<>>))) :
                         parse_attribute(GetAttr(conv[n].tattr, "epub:type", <<>>))[v]
                             = LastLandmarkOf(path)[3]
                 ELSE GetAttr(conv[n].tattr, "epub:type", PyNone)
                          = GetAttr(orig[n].tattr, "epub:type", PyNone)

\* C29: in an epub3 run, once the maps are built, the LandmarkMap holds for each
\* document that landmark anchors with a fragment target one record, that of
\* the last such anchor, and a converted document has a semantic type injected
\* only on the tags whose id is that last anchor's fragment
C29_LastLandmarkSurvives ==
    /\ (loc.built = 1 /\ E3) =>
          /\ DOMAIN etypemap = LandmarkTargets
          /\ \A path \in LandmarkTargets : etypemap[path] = LastLandmarkOf(path)
    /\ (pc \in {"convert", "review", "merge", "returned"} /\ ret # Failure) =>
          \A k \in 1..(loc.docptr - 1) : InjectedOnLastOnly(k)

\* an epub3 run over the nav with the landmarks doc2#s0 (part) and doc2#s1
\* (chapter) has returned: the map holds s1, the tag with id s1 is a chapter
\* and the tag with id s0 has no semantic type
C29_Witness ==
    /\ pc = "returned" /\ ret = Success /\ E3
    /\ Cardinality({ i \in FragmentAnchors(bk.nav) : TargetOf(bk.nav, i) = bookpath }) = 2
    /\ etypemap[bookpath] = <<"id", <<"s1">>, <<"chapter">>>>
    /\ LET tags == IdTags(bk.files["doc2"])
       IN  /\ Len(tags) = 2
           /\ tags[1].tattr = << <<"id", <<"s0">>>> >>
           /\ GetAttr(tags[2].tattr, "id", <<>>) = <<"s1">>
           /\ GetAttr(tags[2].tattr, "epub:type", <<>>) = <<"chapter">>

====
